---- MODULE Spec2Model ----
(***************************************************************************)
(* A model of quipper's PerfParser (src/src/quipper/perf_parser.cc): the   *)
(* record loop of ProcessEvents, sample / call-chain / branch-stack        *)
(* mapping, MMAP and FORK handling, build-id fill, the statistics checks   *)
(* and the pruning done by ParseRawEvents.                                 *)
(*                                                                         *)
(* Addresses are uint64_t.  A 64-bit word is a tuple of four 16-bit limbs, *)
(* most significant first, so that <<\hffff, \hffff, \hbcc0, \h0198>> is   *)
(* 0xffffffffbcc00198; all address arithmetic wraps modulo 2^64 as         *)
(* unsigned C++ arithmetic does.                                           *)
(*                                                                         *)
(* AddressMapper (address_mapper.cc) is not part of the sources at hand:   *)
(* its operations are modelled from the design document, section 4.A.      *)
(***************************************************************************)
EXTENDS Integers, Sequences, FiniteSets, TLC

(***************************************************************************)
(* uint64_t arithmetic                                                     *)
(***************************************************************************)
Limb == 2 ^ 16

U64(a, b, c, d) == <<a, b, c, d>>

U64Zero == <<0, 0, 0, 0>>

\* a small natural number as a 64-bit word
U64Of(n) == <<0, 0, n \div Limb, n % Limb>>

U64AddC(x, y, cin) ==
  LET s4 == x[4] + y[4] + cin
      s3 == x[3] + y[3] + (s4 \div Limb)
      s2 == x[2] + y[2] + (s3 \div Limb)
      s1 == x[1] + y[1] + (s2 \div Limb)
  IN  <<s1 % Limb, s2 % Limb, s3 % Limb, s4 % Limb>>

\* x + y modulo 2^64
U64Add(x, y) == U64AddC(x, y, 0)

\* x - y modulo 2^64 (x + ~y + 1)
U64Sub(x, y) ==
  U64AddC(x, <<Limb - 1 - y[1], Limb - 1 - y[2], Limb - 1 - y[3], Limb - 1 - y[4]>>, 1)

U64Lt(x, y) ==
  \/ x[1] < y[1]
  \/ x[1] = y[1] /\ x[2] < y[2]
  \/ x[1] = y[1] /\ x[2] = y[2] /\ x[3] < y[3]
  \/ x[1] = y[1] /\ x[2] = y[2] /\ x[3] = y[3] /\ x[4] < y[4]

U64Le(x, y) == x = y \/ U64Lt(x, y)

\* x | (1ULL << 63)
U64SetTopBit(x) ==
  IF x[1] >= Limb \div 2 THEN x ELSE <<x[1] + Limb \div 2, x[2], x[3], x[4]>>

(***************************************************************************)
(* Program constants                                                       *)
(***************************************************************************)
\* sysconf(_SC_PAGESIZE)
kMmapPageAlignment == 4096

kSwapperCommandName == "swapper"

kSwapperPid == 0

\* static_cast<uint32_t>(-1); pids are small integers here and -1 stands
\* for 0xffffffff
kKernelPid == -1

\* addr % kMmapPageAlignment; the page size divides 2^16, so the offset is
\* decided by the least significant limb
\* GetPageAlignedOffset with a page of one byte
GetPageAlignedOffsetOfBytePage(addr) == addr[4] % 1

GetPageAlignedOffset(addr) == addr[4] % kMmapPageAlignment

\* (uint64_t)-4095
PERF_CONTEXT_MAX == <<Limb - 1, Limb - 1, Limb - 1, Limb - 4095>>

PERF_RECORD_MMAP == 1
PERF_RECORD_LOST == 2
PERF_RECORD_COMM == 3
PERF_RECORD_EXIT == 4
PERF_RECORD_THROTTLE == 5
PERF_RECORD_UNTHROTTLE == 6
PERF_RECORD_FORK == 7
PERF_RECORD_READ == 8
PERF_RECORD_SAMPLE == 9
PERF_RECORD_MMAP2 == 10
PERF_RECORD_AUX == 11
PERF_RECORD_ITRACE_START == 12
PERF_RECORD_LOST_SAMPLES == 13
PERF_RECORD_SWITCH == 14
PERF_RECORD_SWITCH_CPU_WIDE == 15
PERF_RECORD_NAMESPACES == 16
PERF_RECORD_CGROUP == 19
PERF_RECORD_USER_TYPE_START == 64
PERF_RECORD_FINISHED_ROUND == 68
PERF_RECORD_TIME_CONV == 79

PERF_RECORD_MISC_CPUMODE_MASK == 7
PERF_RECORD_MISC_KERNEL == 1
PERF_RECORD_MISC_USER == 2

(***************************************************************************)
(* float arithmetic of the mapping-percentage check                        *)
(*   float p = static_cast<float>(mapped) / num * 100.;  p < threshold     *)
(* An IEEE-754 binary32 value is <<m, e>>, meaning m * 2^(-e), with        *)
(* m = 0 or 2^23 <= m < 2^24.  Rounding is to nearest, ties to even.       *)
(***************************************************************************)
Pow2(n) == 2 ^ n

RECURSIVE F32Shift(_, _, _)
\* the least k with m * 2^k >= n
F32Shift(m, n, k) == IF m >= n THEN k ELSE F32Shift(2 * m, n, k + 1)

RECURSIVE F32Bits(_, _, _, _)
\* cnt more quotient bits of r / n appended to q: <<quotient, remainder>>
F32Bits(r, n, q, cnt) ==
  IF cnt = 0 THEN <<q, r>>
  ELSE IF 2 * r >= n THEN F32Bits(2 * r - n, n, 2 * q + 1, cnt - 1)
       ELSE F32Bits(2 * r, n, 2 * q, cnt - 1)

\* m kept to 24 bits after dropping s low bits, round to nearest even;
\* sticky says that non-zero bits were already lost below
F32Round(m, s, sticky) ==
  LET q == m \div Pow2(s)
      r == m % Pow2(s)
      half == Pow2(s - 1)
      up == r > half \/ (r = half /\ (sticky \/ q % 2 = 1))
  IN  IF up THEN q + 1 ELSE q

F32Norm(m, e) == IF m = Pow2(24) THEN <<Pow2(23), e - 1>> ELSE <<m, e>>

\* (float)a / (float)b for integers 0 <= a <= b, b > 0, both below 2^24
F32Div(a, b) ==
  IF a = 0 THEN <<0, 0>>
  ELSE LET k == F32Shift(a, b, 0)
           qr == F32Bits(a * Pow2(k) - b, b, 1, 24)
       IN  F32Norm(F32Round(qr[1], 1, qr[2] # 0), 23 + k)

\* (float)(f * 100.): the double product is exact and is then rounded
F32Times100(f) ==
  IF f[1] = 0 THEN f
  ELSE LET p == f[1] * 100
           s == IF p >= Pow2(30) THEN 7 ELSE 6
       IN  F32Norm(F32Round(p, s, FALSE), f[2] - s)

\* f < (float)t for an integer 0 <= t < 128
F32LessInt(f, t) ==
  IF f[1] = 0 THEN t > 0
  ELSE IF t = 0 THEN FALSE
  ELSE IF f[2] >= 24 THEN TRUE
  ELSE IF f[2] <= 0 THEN FALSE
  ELSE f[1] < t * Pow2(f[2])

\* sample_mapping_percentage < threshold
BelowThreshold(mapped, num, threshold) ==
  F32LessInt(F32Times100(F32Div(mapped, num)), threshold)

(***************************************************************************)
(* AddressMapper, from the design document (section 3 and 4.A).            *)
(* A mapper is the sequence of its intervals in increasing order of start; *)
(* an interval is [start, len, pgoff, id].  The synthetic start of an      *)
(* interval is the sum of the lengths of the intervals before it.          *)
(***************************************************************************)
Interval(start, len, pgoff, id) ==
  [start |-> start, len |-> len, pgoff |-> pgoff, id |-> id]

\* the last address of an interval (limit - 1)
IntervalLast(iv) == U64Sub(U64Add(iv.start, iv.len), U64Of(1))

\* a new, empty mapper
NewAddressMapper == << >>

\* what is left of the existing interval e once [s, l] (last address l) is
\* given to a new mapping: nothing, e itself, e truncated, or e split in two
RemoveOverlap(e, s, l) ==
  LET el == IntervalLast(e)
      tail == [e EXCEPT !.start = U64Add(l, U64Of(1)),
                        !.len = U64Sub(el, l),
                        !.pgoff = U64Add(e.pgoff, U64Sub(U64Add(l, U64Of(1)), e.start))]
      head == [e EXCEPT !.len = U64Sub(s, e.start)]
  IN  IF U64Lt(el, s) \/ U64Lt(l, e.start) THEN <<e>>
      ELSE IF U64Le(s, e.start) /\ U64Le(el, l) THEN << >>
      ELSE IF U64Le(s, e.start) THEN <<tail>>
      ELSE IF U64Le(el, l) THEN <<head>>
      ELSE <<head, tail>>

RECURSIVE RemoveOverlaps(_, _, _)
RemoveOverlaps(m, s, l) ==
  IF m = << >> THEN << >>
  ELSE RemoveOverlap(Head(m), s, l) \o RemoveOverlaps(Tail(m), s, l)

RECURSIVE InsertSorted(_, _)
InsertSorted(m, iv) ==
  IF m = << >> THEN <<iv>>
  ELSE IF U64Lt(iv.start, Head(m).start) THEN <<iv>> \o m
  ELSE <<Head(m)>> \o InsertSorted(Tail(m), iv)

\* map_with_id(start, length, event_id, page_offset, remove_old_mappings =
\* true, is_jit = false): [ok, mapper]
MapWithID(m, start, len, id, pgoff) ==
  IF len = U64Zero THEN [ok |-> FALSE, mapper |-> m]
  ELSE LET iv == Interval(start, len, pgoff, id)
       IN  [ok |-> TRUE,
            mapper |-> InsertSorted(RemoveOverlaps(m, start, IntervalLast(iv)), iv)]

\* the index of the interval of m that contains addr, 0 when there is none
FindInterval(m, addr) ==
  LET hits == {k \in 1..Len(m) :
                 U64Le(m[k].start, addr) /\ U64Lt(U64Sub(addr, m[k].start), m[k].len)}
  IN  IF hits = {} THEN 0 ELSE CHOOSE k \in hits : TRUE

RECURSIVE SyntheticStart(_, _)
\* the sum of the lengths of the intervals before the k-th
SyntheticStart(m, k) ==
  IF k = 1 THEN U64Zero ELSE U64Add(SyntheticStart(m, k - 1), m[k - 1].len)

\* get_mapped_address_and_iterator: [mapped, mapped_addr, iter]
GetMappedAddressAndListIterator(m, addr) ==
  LET k == FindInterval(m, addr)
  IN  IF k = 0 THEN [mapped |-> FALSE, mapped_addr |-> U64Zero, iter |-> 0]
      ELSE [mapped |-> TRUE,
            mapped_addr |-> U64Add(SyntheticStart(m, k), U64Sub(addr, m[k].start)),
            iter |-> k]

\* get_mapped_id_and_offset: [id, offset]
GetMappedIDAndOffset(m, addr, k) ==
  [id |-> m[k].id, offset |-> U64Add(m[k].pgoff, U64Sub(addr, m[k].start))]

(***************************************************************************)
(* Records of the reader (PerfEvent).  One record shape serves every type; *)
(* a field a type does not use keeps its default.  rid is the position of  *)
(* the record in the list handed to the current parse; the parser never    *)
(* reads it.                                                               *)
(***************************************************************************)
NoEvent ==
  [type |-> 0, misc |-> 0, pid |-> 0, tid |-> 0, ppid |-> 0, ptid |-> 0,
   start |-> U64Zero, len |-> U64Zero, pgoff |-> U64Zero, filename |-> "",
   maj |-> 0, min |-> 0, ino |-> 0, comm |-> "",
   has_sample_event |-> FALSE, ip |-> U64Zero, addr |-> U64Zero,
   callchain |-> << >>, branch_stack |-> << >>, rid |-> 0]

MmapEvent(misc, pid, start, len, pgoff, filename) ==
  [NoEvent EXCEPT !.type = PERF_RECORD_MMAP, !.misc = misc, !.pid = pid, !.tid = pid,
                  !.start = start, !.len = len, !.pgoff = pgoff, !.filename = filename]

Mmap2Event(misc, pid, start, len, pgoff, filename, maj, min, ino) ==
  [MmapEvent(misc, pid, start, len, pgoff, filename)
     EXCEPT !.type = PERF_RECORD_MMAP2, !.maj = maj, !.min = min, !.ino = ino]

SampleEvent(pid, tid, ip, addr, callchain, branch_stack) ==
  [NoEvent EXCEPT !.type = PERF_RECORD_SAMPLE, !.misc = PERF_RECORD_MISC_USER,
                  !.pid = pid, !.tid = tid, !.has_sample_event = TRUE,
                  !.ip = ip, !.addr = addr,
                  !.callchain = callchain, !.branch_stack = branch_stack]

ForkEvent(ppid, ptid, pid, tid) ==
  [NoEvent EXCEPT !.type = PERF_RECORD_FORK, !.ppid = ppid, !.ptid = ptid,
                  !.pid = pid, !.tid = tid]

ExitEvent(ppid, ptid, pid, tid) ==
  [ForkEvent(ppid, ptid, pid, tid) EXCEPT !.type = PERF_RECORD_EXIT]

CommEvent(pid, tid, comm) ==
  [NoEvent EXCEPT !.type = PERF_RECORD_COMM, !.pid = pid, !.tid = tid, !.comm = comm]

\* a record with a header only
OtherEvent(type) == [NoEvent EXCEPT !.type = type]

BranchStackEntry(from_ip, to_ip) == [from_ip |-> from_ip, to_ip |-> to_ip]

HasMmapEvent(ev) == ev.type \in {PERF_RECORD_MMAP, PERF_RECORD_MMAP2}

(***************************************************************************)
(* ParsedEvent and DSOInfo                                                 *)
(***************************************************************************)
NullDso == "(null)"

NoCommand == "(null)"

\* ParsedEvent::DSOAndOffset after construction
NullDSOAndOffset == [dso_info |-> NullDso, offset |-> U64Zero]

NullBranchEntry == [from |-> NullDSOAndOffset, to |-> NullDSOAndOffset]

\* a ParsedEvent after construction, pointing at the event_ptr-th record
ParsedEvent(event_ptr) ==
  [event_ptr |-> event_ptr, num_samples_in_mmap_region |-> 0,
   command |-> NoCommand,
   dso_and_offset |-> NullDSOAndOffset, data_dso_and_offset |-> NullDSOAndOffset,
   callchain |-> << >>, branch_stack |-> << >>]

DSOInfo(maj, min, ino) ==
  [maj |-> maj, min |-> min, ino |-> ino, build_id |-> << >>,
   hit |-> FALSE, threads |-> {}]

ZeroStats ==
  [num_mmap_events |-> 0, num_comm_events |-> 0, num_fork_events |-> 0,
   num_exit_events |-> 0, num_sample_events |-> 0, num_sample_events_mapped |-> 0,
   num_data_sample_events |-> 0, num_data_sample_events_mapped |-> 0,
   did_remap |-> FALSE]

\* std::vector::resize on a sequence, new elements being copies of fill
Resize(seq, n, fill) ==
  [k \in 1..n |-> IF k <= Len(seq) THEN seq[k] ELSE fill]

(***************************************************************************)
(* State                                                                   *)
(***************************************************************************)
VARIABLES
  options,             \* PerfParserOptions
  reader,              \* what the reader answers besides its records
  dso_probe,           \* what FindDsoBuildId finds on the file system, by name
  events,              \* reader_->events()
  parsed_events,       \* parsed_events_
  process_mappers,     \* process_mappers_: pid -> AddressMapper
  name_to_dso,         \* name_to_dso_: filename -> DSOInfo
  commands,            \* commands_
  pidtid_to_comm_map,  \* pidtid_to_comm_map_: <<pid, tid>> -> command
  stats,               \* stats_
  i,                   \* the loop index of ProcessEvents
  first_kernel_mmap,   \* the local latch of ProcessEvents
  pc,                  \* where ParseRawEvents stands
  ret_site,            \* the return statement ProcessEvents left by
  process_events_result,  \* what ProcessEvents returned (once pc is "returned")
  parse_result,        \* what ParseRawEvents returned (once pc is "done")
  parses,              \* the number of ParseRawEvents calls begun
  input,               \* the records as they were when the current parse began
  last_log             \* the message ProcessEvents logged on its way out

vars == <<options, reader, dso_probe, events, parsed_events, process_mappers,
          name_to_dso, commands, pidtid_to_comm_map, stats, i, first_kernel_mmap,
          pc, ret_site, process_events_result, parse_result, parses, input,
          last_log>>

\* the part of the parser that the mapping functions read and write
ParserState ==
  [events |-> events, parsed_events |-> parsed_events,
   process_mappers |-> process_mappers, name_to_dso |-> name_to_dso,
   commands |-> commands, pidtid_to_comm_map |-> pidtid_to_comm_map,
   stats |-> stats]

(***************************************************************************)
(* GetOrCreateProcessMapper                                                *)
(***************************************************************************)
\* GetOrCreateProcessMapper that replaces a mapper pid already has
GetOrCreateProcessMapperReplacing(mappers, pid, ppid) ==
  LET parent == IF ppid \in DOMAIN mappers THEN ppid ELSE kKernelPid
      mapper == IF parent \in DOMAIN mappers THEN mappers[parent]
                ELSE NewAddressMapper
  IN  [mappers |-> (pid :> mapper) @@ mappers, created |-> TRUE]

GetOrCreateProcessMapper(mappers, pid, ppid) ==
  IF pid \in DOMAIN mappers THEN [mappers |-> mappers, created |-> FALSE]
  ELSE LET parent == IF ppid \in DOMAIN mappers THEN ppid ELSE kKernelPid
           mapper == IF parent \in DOMAIN mappers THEN mappers[parent]
                     ELSE NewAddressMapper
       IN  [mappers |-> (pid :> mapper) @@ mappers, created |-> TRUE]

(***************************************************************************)
(* MapIPAndPidAndGetNameAndOffset: [ok, mapped, new_ip, dso_and_offset, st] *)
(* ok is the value returned; mapped says that an interval was found, in    *)
(* which case *dso_and_offset was written; new_ip is written when ok.      *)
(* (Local operators with a parameter stand for the local variables of the  *)
(* function.)                                                              *)
(***************************************************************************)
\* MapIPAndPidAndGetNameAndOffset that marks every known DSO as hit by the
\* thread
MapIPMarkingEveryDso(st, ip, pidtid) ==
  LET Hit(st0, mapped_addr, io, filename) ==
        LET Result(st1, dao) ==
              IF options.do_remap
              THEN IF GetPageAlignedOffset(mapped_addr) # GetPageAlignedOffset(ip)
                   THEN [ok |-> FALSE, mapped |-> TRUE, new_ip |-> U64Zero,
                         dso_and_offset |-> dao, st |-> st1]
                   ELSE [ok |-> TRUE, mapped |-> TRUE, new_ip |-> mapped_addr,
                         dso_and_offset |-> dao, st |-> st1]
              ELSE [ok |-> TRUE, mapped |-> TRUE, new_ip |-> ip,
                    dso_and_offset |-> dao, st |-> st1]
        IN  Result([st0 EXCEPT
                      !.name_to_dso =
                         [n \in DOMAIN @ |->
                            [@[n] EXCEPT !.hit = TRUE, !.threads = @ \cup {pidtid}]],
                      !.parsed_events[io.id + 1].num_samples_in_mmap_region = @ + 1],
                   [dso_info |-> filename, offset |-> io.offset])
      Found(st0, mapper, found) ==
        IF ~found.mapped
        THEN [ok |-> FALSE, mapped |-> FALSE, new_ip |-> U64Zero,
              dso_and_offset |-> NullDSOAndOffset, st |-> st0]
        ELSE LET WithId(io) ==
                   Hit(st0, found.mapped_addr, io,
                       st0.events[st0.parsed_events[io.id + 1].event_ptr].filename)
             IN  WithId(GetMappedIDAndOffset(mapper, ip, found.iter))
      WithMappers(mappers) ==
        Found([st EXCEPT !.process_mappers = mappers], mappers[pidtid[1]],
              GetMappedAddressAndListIterator(mappers[pidtid[1]], ip))
  IN  WithMappers(GetOrCreateProcessMapper(st.process_mappers, pidtid[1], kKernelPid).mappers)

MapIPAndPidAndGetNameAndOffset(st, ip, pidtid) ==
  LET Hit(st0, mapped_addr, io, filename) ==
        LET Result(st1, dao) ==
              IF options.do_remap
              THEN IF GetPageAlignedOffset(mapped_addr) # GetPageAlignedOffset(ip)
                   THEN [ok |-> FALSE, mapped |-> TRUE, new_ip |-> U64Zero,
                         dso_and_offset |-> dao, st |-> st1]
                   ELSE [ok |-> TRUE, mapped |-> TRUE, new_ip |-> mapped_addr,
                         dso_and_offset |-> dao, st |-> st1]
              ELSE [ok |-> TRUE, mapped |-> TRUE, new_ip |-> ip,
                    dso_and_offset |-> dao, st |-> st1]
        IN  Result([st0 EXCEPT
                      !.name_to_dso[filename].hit = TRUE,
                      !.name_to_dso[filename].threads = @ \cup {pidtid},
                      !.parsed_events[io.id + 1].num_samples_in_mmap_region = @ + 1],
                   [dso_info |-> filename, offset |-> io.offset])
      Found(st0, mapper, found) ==
        IF ~found.mapped
        THEN [ok |-> FALSE, mapped |-> FALSE, new_ip |-> U64Zero,
              dso_and_offset |-> NullDSOAndOffset, st |-> st0]
        ELSE LET WithId(io) ==
                   Hit(st0, found.mapped_addr, io,
                       st0.events[st0.parsed_events[io.id + 1].event_ptr].filename)
             IN  WithId(GetMappedIDAndOffset(mapper, ip, found.iter))
      WithMappers(mappers) ==
        Found([st EXCEPT !.process_mappers = mappers], mappers[pidtid[1]],
              GetMappedAddressAndListIterator(mappers[pidtid[1]], ip))
  IN  WithMappers(GetOrCreateProcessMapper(st.process_mappers, pidtid[1], kKernelPid).mappers)

(***************************************************************************)
(* MapCallchain: [ok, st].  pe is the position of the sample in            *)
(* parsed_events (from 1).                                                 *)
(***************************************************************************)
RECURSIVE MapCallchainLoop(_, _, _, _, _, _, _, _)
\* the loop from entry j on: [ok, st, num_entries_mapped]
\* MapCallchainLoop that leaves an entry it could not map as it was
RECURSIVE MapCallchainLoopWithoutTag(_, _, _, _, _, _, _, _)
MapCallchainLoopWithoutTag(st, pe, j, ip, pidtid, original_event_addr, num_entries_mapped, mapping_ok) ==
  LET ptr == st.parsed_events[pe].event_ptr
      Mapped(entry, r) ==
        LET Slot(st1) ==
              MapCallchainLoopWithoutTag(
                [st1 EXCEPT !.events[ptr].callchain[j] =
                              IF r.ok THEN r.new_ip ELSE entry],
                pe, j + 1, ip, pidtid, original_event_addr,
                num_entries_mapped + 1, mapping_ok /\ r.ok)
        IN  Slot(IF r.mapped
                 THEN [r.st EXCEPT !.parsed_events[pe].callchain[num_entries_mapped + 1] =
                                      r.dso_and_offset]
                 ELSE r.st)
      Entry(entry) ==
        IF ~U64Lt(entry, PERF_CONTEXT_MAX)
        THEN MapCallchainLoopWithoutTag(st, pe, j + 1, ip, pidtid, original_event_addr,
                                        num_entries_mapped, mapping_ok)
        ELSE IF entry = original_event_addr
        THEN MapCallchainLoopWithoutTag([st EXCEPT !.events[ptr].callchain[j] = ip],
                                        pe, j + 1, ip, pidtid, original_event_addr,
                                        num_entries_mapped, mapping_ok)
        ELSE Mapped(entry, MapIPAndPidAndGetNameAndOffset(st, entry, pidtid))
  IN  IF j > Len(st.events[ptr].callchain)
      THEN [ok |-> mapping_ok, st |-> st, num_entries_mapped |-> num_entries_mapped]
      ELSE Entry(st.events[ptr].callchain[j])

MapCallchainLoop(st, pe, j, ip, pidtid, original_event_addr, num_entries_mapped, mapping_ok) ==
  LET ptr == st.parsed_events[pe].event_ptr
      Mapped(entry, r) ==
        LET Slot(st1) ==
              MapCallchainLoop(
                [st1 EXCEPT !.events[ptr].callchain[j] =
                              IF r.ok THEN r.new_ip ELSE U64SetTopBit(entry)],
                pe, j + 1, ip, pidtid, original_event_addr,
                num_entries_mapped + 1, mapping_ok /\ r.ok)
        IN  Slot(IF r.mapped
                 THEN [r.st EXCEPT !.parsed_events[pe].callchain[num_entries_mapped + 1] =
                                      r.dso_and_offset]
                 ELSE r.st)
      Entry(entry) ==
        IF ~U64Lt(entry, PERF_CONTEXT_MAX)
        THEN MapCallchainLoop(st, pe, j + 1, ip, pidtid, original_event_addr,
                              num_entries_mapped, mapping_ok)
        ELSE IF entry = original_event_addr
        THEN MapCallchainLoop([st EXCEPT !.events[ptr].callchain[j] = ip],
                              pe, j + 1, ip, pidtid, original_event_addr,
                              num_entries_mapped, mapping_ok)
        ELSE Mapped(entry, MapIPAndPidAndGetNameAndOffset(st, entry, pidtid))
  IN  IF j > Len(st.events[ptr].callchain)
      THEN [ok |-> mapping_ok, st |-> st, num_entries_mapped |-> num_entries_mapped]
      ELSE Entry(st.events[ptr].callchain[j])

\* MapCallchain with the final resize applied to the call chain of the sample
\* as well
MapCallchainTrimmingInput(st, pe, ip, pidtid, original_event_addr) ==
  LET ptr == st.parsed_events[pe].event_ptr
      size == Len(st.events[ptr].callchain)
      Trim(r) ==
        [ok |-> r.ok,
         st |-> [r.st EXCEPT !.parsed_events[pe].callchain =
                               Resize(@, r.num_entries_mapped, NullDSOAndOffset),
                             !.events[ptr].callchain =
                               Resize(@, r.num_entries_mapped, U64Zero)]]
  IN  IF size = 0 THEN [ok |-> TRUE, st |-> st]
      ELSE Trim(MapCallchainLoop(
                  [st EXCEPT !.parsed_events[pe].callchain =
                               Resize(@, size, NullDSOAndOffset)],
                  pe, 1, ip, pidtid, original_event_addr, 0, TRUE))

MapCallchain(st, pe, ip, pidtid, original_event_addr) ==
  LET size == Len(st.events[st.parsed_events[pe].event_ptr].callchain)
      Trim(r) ==
        [ok |-> r.ok,
         st |-> [r.st EXCEPT !.parsed_events[pe].callchain =
                               Resize(@, r.num_entries_mapped, NullDSOAndOffset)]]
  IN  IF size = 0 THEN [ok |-> TRUE, st |-> st]
      ELSE Trim(MapCallchainLoop(
                  [st EXCEPT !.parsed_events[pe].callchain =
                               Resize(@, size, NullDSOAndOffset)],
                  pe, 1, ip, pidtid, original_event_addr, 0, TRUE))

(***************************************************************************)
(* MapBranchStack: [ok, st]                                                *)
(***************************************************************************)
IsNullBranchStackEntry(entry) == entry.from_ip = U64Zero /\ entry.to_ip = U64Zero

\* no trimming: the size of the branch stack
TrimmedSizeOfWholeStack(branch_stack) == Len(branch_stack)

\* the number of entries before the first null entry
TrimmedSize(branch_stack) ==
  LET nulls == {k \in 1..Len(branch_stack) : IsNullBranchStackEntry(branch_stack[k])}
  IN  IF nulls = {} THEN Len(branch_stack)
      ELSE (CHOOSE k \in nulls : \A n \in nulls : k <= n) - 1

RECURSIVE MapBranchStackLoop(_, _, _, _, _)
MapBranchStackLoop(st, pe, j, trimmed_size, pidtid) ==
  LET ptr == st.parsed_events[pe].event_ptr
      To(rt) ==
        LET Stored(sto) ==
              IF ~rt.ok THEN [ok |-> FALSE, st |-> sto]
              ELSE MapBranchStackLoop(
                     [sto EXCEPT !.events[ptr].branch_stack[j].to_ip = rt.new_ip],
                     pe, j + 1, trimmed_size, pidtid)
        IN  Stored(IF rt.mapped
                   THEN [rt.st EXCEPT !.parsed_events[pe].branch_stack[j].to =
                                        rt.dso_and_offset]
                   ELSE rt.st)
      From(entry, rf) ==
        LET Stored(sf) ==
              IF ~rf.ok THEN [ok |-> FALSE, st |-> sf]
              ELSE To(MapIPAndPidAndGetNameAndOffset(
                        [sf EXCEPT !.events[ptr].branch_stack[j].from_ip = rf.new_ip],
                        entry.to_ip, pidtid))
        IN  Stored(IF rf.mapped
                   THEN [rf.st EXCEPT !.parsed_events[pe].branch_stack[j].from =
                                        rf.dso_and_offset]
                   ELSE rf.st)
      Entry(entry) ==
        From(entry, MapIPAndPidAndGetNameAndOffset(st, entry.from_ip, pidtid))
  IN  IF j > trimmed_size THEN [ok |-> TRUE, st |-> st]
      ELSE Entry(st.events[ptr].branch_stack[j])

\* MapBranchStack without the check of the entries after the first null one
MapBranchStackUnchecked(st, pe, pidtid) ==
  LET Trimmed(trimmed_size) ==
        MapBranchStackLoop(
          [st EXCEPT !.parsed_events[pe].branch_stack =
                       Resize(@, trimmed_size, NullBranchEntry)],
          pe, 1, trimmed_size, pidtid)
  IN  Trimmed(TrimmedSize(st.events[st.parsed_events[pe].event_ptr].branch_stack))

\* MapBranchStack undoing, when an address does not map, what the lookups
\* before it did
MapBranchStackRollingBack(st, pe, pidtid) ==
  LET Result(r) == IF r.ok THEN r ELSE [ok |-> FALSE, st |-> st]
      Trimmed(branch_stack, trimmed_size) ==
        IF \E k \in (trimmed_size + 1)..Len(branch_stack) :
             ~IsNullBranchStackEntry(branch_stack[k])
        THEN [ok |-> FALSE, st |-> st]
        ELSE Result(MapBranchStackLoop(
                      [st EXCEPT !.parsed_events[pe].branch_stack =
                                   Resize(@, trimmed_size, NullBranchEntry)],
                      pe, 1, trimmed_size, pidtid))
      Stack(branch_stack) == Trimmed(branch_stack, TrimmedSize(branch_stack))
  IN  Stack(st.events[st.parsed_events[pe].event_ptr].branch_stack)

MapBranchStack(st, pe, pidtid) ==
  LET Trimmed(branch_stack, trimmed_size) ==
        IF \E k \in (trimmed_size + 1)..Len(branch_stack) :
             ~IsNullBranchStackEntry(branch_stack[k])
        THEN [ok |-> FALSE, st |-> st]
        ELSE MapBranchStackLoop(
               [st EXCEPT !.parsed_events[pe].branch_stack =
                            Resize(@, trimmed_size, NullBranchEntry)],
               pe, 1, trimmed_size, pidtid)
      Stack(branch_stack) == Trimmed(branch_stack, TrimmedSize(branch_stack))
  IN  Stack(st.events[st.parsed_events[pe].event_ptr].branch_stack)

(***************************************************************************)
(* MapSampleEvent: the parser state after it                               *)
(***************************************************************************)
\* MapSampleIp storing new_ip whether or not the lookup succeeded
MapSampleIpAlwaysStores(st, pe, pidtid) ==
  LET ptr == st.parsed_events[pe].event_ptr
      Looked(r) ==
        [ok |-> r.ok,
         st |-> [(IF r.mapped
                  THEN [r.st EXCEPT !.parsed_events[pe].dso_and_offset = r.dso_and_offset]
                  ELSE r.st) EXCEPT !.events[ptr].ip = r.new_ip]]
  IN  Looked(MapIPAndPidAndGetNameAndOffset(st, st.events[ptr].ip, pidtid))

\* the lookup of the sample's ip and what is done with its result: [ok, st]
MapSampleIp(st, pe, pidtid) ==
  LET ptr == st.parsed_events[pe].event_ptr
      Stored(r, st1) ==
        [ok |-> r.ok,
         st |-> IF r.ok THEN [st1 EXCEPT !.events[ptr].ip = r.new_ip] ELSE st1]
      Looked(r) ==
        Stored(r, IF r.mapped
                  THEN [r.st EXCEPT !.parsed_events[pe].dso_and_offset = r.dso_and_offset]
                  ELSE r.st)
  IN  Looked(MapIPAndPidAndGetNameAndOffset(st, st.events[ptr].ip, pidtid))

\* the lookup of the sample's data address, when it has one
\* MapSampleAddr without "++stats_.num_data_sample_events"
MapSampleAddrCountingMappedOnly(st, pe, pidtid) ==
  LET ptr == st.parsed_events[pe].event_ptr
      Stored(r, st1) ==
        IF r.ok
        THEN [st1 EXCEPT !.stats.num_data_sample_events_mapped = @ + 1,
                         !.events[ptr].addr = r.new_ip]
        ELSE st1
      Looked(r) ==
        Stored(r, IF r.mapped
                  THEN [r.st EXCEPT !.parsed_events[pe].data_dso_and_offset =
                                      r.dso_and_offset]
                  ELSE r.st)
  IN  IF st.events[ptr].addr = U64Zero THEN st
      ELSE Looked(MapIPAndPidAndGetNameAndOffset(st, st.events[ptr].addr, pidtid))

MapSampleAddr(st, pe, pidtid) ==
  LET ptr == st.parsed_events[pe].event_ptr
      Stored(r, st1) ==
        IF r.ok
        THEN [st1 EXCEPT !.stats.num_data_sample_events_mapped = @ + 1,
                         !.events[ptr].addr = r.new_ip]
        ELSE st1
      Looked(r) ==
        Stored(r, IF r.mapped
                  THEN [r.st EXCEPT !.parsed_events[pe].data_dso_and_offset =
                                      r.dso_and_offset]
                  ELSE r.st)
  IN  IF st.events[ptr].addr = U64Zero THEN st
      ELSE Looked(MapIPAndPidAndGetNameAndOffset(
                    [st EXCEPT !.stats.num_data_sample_events = @ + 1],
                    st.events[ptr].addr, pidtid))

\* MapSampleEvent in which a data address that cannot be mapped clears
\* mapping_ok
MapSampleEventAddrDecides(st, pe) ==
  LET ptr == st.parsed_events[pe].event_ptr
      event == st.events[ptr]
      pidtid == <<event.pid, event.tid>>
      unmapped_event_ip == event.ip
      Counted(mapping_ok, st5) ==
        IF mapping_ok
        THEN [st5 EXCEPT !.stats.num_sample_events_mapped = @ + 1]
        ELSE st5
      AfterBranchStack(mapping_ok, rbs) == Counted(mapping_ok /\ rbs.ok, rbs.st)
      AfterCallchain(mapping_ok, rcc) ==
        AfterBranchStack(mapping_ok /\ rcc.ok,
                         IF Len(event.branch_stack) # 0
                         THEN MapBranchStack(rcc.st, pe, pidtid)
                         ELSE [ok |-> TRUE, st |-> rcc.st])
      AfterAddr(mapping_ok, st2) ==
        AfterCallchain(mapping_ok /\ st2.stats.num_data_sample_events_mapped =
                                       st2.stats.num_data_sample_events,
                       IF Len(event.callchain) # 0
                       THEN MapCallchain(st2, pe, st2.events[ptr].ip, pidtid,
                                         unmapped_event_ip)
                       ELSE [ok |-> TRUE, st |-> st2])
      AfterIp(rip) == AfterAddr(rip.ok, MapSampleAddr(rip.st, pe, pidtid))
  IN  IF ~event.has_sample_event THEN st
      ELSE AfterIp(MapSampleIp(
                     IF pidtid \in DOMAIN st.pidtid_to_comm_map
                     THEN [st EXCEPT !.parsed_events[pe].command =
                                       st.pidtid_to_comm_map[pidtid]]
                     ELSE st,
                     pe, pidtid))

MapSampleEvent(st, pe) ==
  LET ptr == st.parsed_events[pe].event_ptr
      event == st.events[ptr]
      pidtid == <<event.pid, event.tid>>
      unmapped_event_ip == event.ip
      Counted(mapping_ok, st5) ==
        IF mapping_ok
        THEN [st5 EXCEPT !.stats.num_sample_events_mapped = @ + 1]
        ELSE st5
      AfterBranchStack(mapping_ok, rbs) == Counted(mapping_ok /\ rbs.ok, rbs.st)
      AfterCallchain(mapping_ok, rcc) ==
        AfterBranchStack(mapping_ok /\ rcc.ok,
                         IF Len(event.branch_stack) # 0
                         THEN MapBranchStack(rcc.st, pe, pidtid)
                         ELSE [ok |-> TRUE, st |-> rcc.st])
      AfterAddr(mapping_ok, st2) ==
        AfterCallchain(mapping_ok,
                       IF Len(event.callchain) # 0
                       THEN MapCallchain(st2, pe, st2.events[ptr].ip, pidtid,
                                         unmapped_event_ip)
                       ELSE [ok |-> TRUE, st |-> st2])
      AfterIp(rip) == AfterAddr(rip.ok, MapSampleAddr(rip.st, pe, pidtid))
  IN  IF ~event.has_sample_event THEN st
      ELSE AfterIp(MapSampleIp(
                     IF pidtid \in DOMAIN st.pidtid_to_comm_map
                     THEN [st EXCEPT !.parsed_events[pe].command =
                                       st.pidtid_to_comm_map[pidtid]]
                     ELSE st,
                     pe, pidtid))

(***************************************************************************)
(* MapMmapEvent: [ok, st]                                                  *)
(***************************************************************************)
\* NormalizeMmap with "len - pgoff" where the code has "len + start - pgoff"
NormalizeMmapWithoutStart(start, len, pgoff, is_kernel) ==
  LET inside == is_kernel /\ U64Lt(start, pgoff) /\ U64Lt(pgoff, U64Add(start, len))
  IN  [start |-> IF inside THEN pgoff ELSE start,
       len |-> IF inside THEN U64Sub(len, pgoff) ELSE len,
       pgoff |-> IF is_kernel THEN U64Zero ELSE pgoff]

\* the start, len and pgoff handed to the mapper
NormalizeMmap(start, len, pgoff, is_kernel) ==
  LET inside == is_kernel /\ U64Lt(start, pgoff) /\ U64Lt(pgoff, U64Add(start, len))
  IN  [start |-> IF inside THEN pgoff ELSE start,
       len |-> IF inside THEN U64Sub(U64Add(len, start), pgoff) ELSE len,
       pgoff |-> IF is_kernel THEN U64Zero ELSE pgoff]

\* the rewriting of the record under do_remap: [ok, st]
RemapMmapEvent(st, ptr, mapper, n) ==
  LET Looked(found) ==
        IF ~found.mapped THEN [ok |-> FALSE, st |-> st]
        ELSE IF GetPageAlignedOffset(found.mapped_addr) # GetPageAlignedOffset(n.start)
        THEN [ok |-> FALSE, st |-> st]
        ELSE [ok |-> TRUE,
              st |-> [st EXCEPT !.events[ptr].start = found.mapped_addr,
                                !.events[ptr].len = n.len,
                                !.events[ptr].pgoff = n.pgoff]]
  IN  Looked(GetMappedAddressAndListIterator(mapper, n.start))

\* MapMmapEvent rewriting the record whatever do_remap says
MapMmapEventAlwaysRemaps(st, ptr, id, is_kernel) ==
  LET event == st.events[ptr]
      Inserted(mappers, n, mw) ==
        IF ~mw.ok THEN [ok |-> FALSE, st |-> [st EXCEPT !.process_mappers = mappers]]
        ELSE RemapMmapEvent(
               [st EXCEPT !.process_mappers = [mappers EXCEPT ![event.pid] = mw.mapper]],
               ptr, mw.mapper, n)
      Normalized(mappers, n) ==
        Inserted(mappers, n, MapWithID(mappers[event.pid], n.start, n.len, id, n.pgoff))
      WithMappers(mappers) ==
        Normalized(mappers, NormalizeMmap(event.start, event.len, event.pgoff, is_kernel))
  IN  WithMappers(GetOrCreateProcessMapper(st.process_mappers, event.pid, kKernelPid).mappers)

\* MapMmapEvent with mappers that are shared, not copied: the mapping goes
\* into every mapper
MapMmapEventIntoEveryMapper(st, ptr, id, is_kernel) ==
  LET event == st.events[ptr]
      Shared(mappers, n, mw) ==
        [p \in DOMAIN mappers |->
           IF p = event.pid THEN mw.mapper
           ELSE MapWithID(mappers[p], n.start, n.len, id, n.pgoff).mapper]
      Inserted(mappers, n, mw) ==
        IF ~mw.ok THEN [ok |-> FALSE, st |-> [st EXCEPT !.process_mappers = mappers]]
        ELSE IF options.do_remap
        THEN RemapMmapEvent(
               [st EXCEPT !.process_mappers = Shared(mappers, n, mw)],
               ptr, mw.mapper, n)
        ELSE [ok |-> TRUE,
              st |-> [st EXCEPT !.process_mappers = Shared(mappers, n, mw)]]
      Normalized(mappers, n) ==
        Inserted(mappers, n, MapWithID(mappers[event.pid], n.start, n.len, id, n.pgoff))
      WithMappers(mappers) ==
        Normalized(mappers, NormalizeMmap(event.start, event.len, event.pgoff, is_kernel))
  IN  WithMappers(GetOrCreateProcessMapper(st.process_mappers, event.pid, kKernelPid).mappers)

MapMmapEvent(st, ptr, id, is_kernel) ==
  LET event == st.events[ptr]
      Inserted(mappers, n, mw) ==
        IF ~mw.ok THEN [ok |-> FALSE, st |-> [st EXCEPT !.process_mappers = mappers]]
        ELSE IF options.do_remap
        THEN RemapMmapEvent(
               [st EXCEPT !.process_mappers = [mappers EXCEPT ![event.pid] = mw.mapper]],
               ptr, mw.mapper, n)
        ELSE [ok |-> TRUE,
              st |-> [st EXCEPT !.process_mappers =
                                  [mappers EXCEPT ![event.pid] = mw.mapper]]]
      Normalized(mappers, n) ==
        Inserted(mappers, n, MapWithID(mappers[event.pid], n.start, n.len, id, n.pgoff))
      WithMappers(mappers) ==
        Normalized(mappers, NormalizeMmap(event.start, event.len, event.pgoff, is_kernel))
  IN  WithMappers(GetOrCreateProcessMapper(st.process_mappers, event.pid, kKernelPid).mappers)

(***************************************************************************)
(* MapCommEvent, MapForkEvent                                              *)
(***************************************************************************)
MapCommEvent(st, event) ==
  [st EXCEPT !.process_mappers =
               GetOrCreateProcessMapper(@, event.pid, kKernelPid).mappers]

\* MapForkEvent that gives the child no command
MapForkEventWithoutCommand(st, event) ==
  IF event.ppid = event.pid THEN st
  ELSE [st EXCEPT !.process_mappers =
                    GetOrCreateProcessMapper(@, event.pid, event.ppid).mappers]

MapForkEvent(st, event) ==
  LET parent == <<event.ppid, event.ptid>>
      child == <<event.pid, event.tid>>
      Mapper(st1) ==
        IF event.ppid = event.pid THEN st1
        ELSE [st1 EXCEPT !.process_mappers =
                           GetOrCreateProcessMapper(@, event.pid, event.ppid).mappers]
  IN  Mapper(IF parent # child /\ parent \in DOMAIN st.pidtid_to_comm_map
             THEN [st EXCEPT !.pidtid_to_comm_map =
                               (child :> st.pidtid_to_comm_map[parent]) @@ @]
             ELSE st)

(***************************************************************************)
(* The body of the loop of ProcessEvents for the record at index idx       *)
(* (from 0): [status, st, first_kernel_mmap], status being "continue",     *)
(* "return_false" (the default case) or "abort" (a CHECK failed).          *)
(***************************************************************************)
NoOpTypes ==
  {PERF_RECORD_LOST, PERF_RECORD_THROTTLE, PERF_RECORD_UNTHROTTLE, PERF_RECORD_AUX,
   PERF_RECORD_ITRACE_START, PERF_RECORD_LOST_SAMPLES, PERF_RECORD_SWITCH,
   PERF_RECORD_SWITCH_CPU_WIDE, PERF_RECORD_NAMESPACES, PERF_RECORD_CGROUP}

\* ProcessUserEvents refusing every record
ProcessUserEventsRejecting(event) == FALSE

\* ProcessUserEvents: always true, no effect
ProcessUserEvents(event) == TRUE

\* the MMAP / MMAP2 case that gives the interval the index of the record in the
\* list of the reader as its id
ProcessMmapWithReaderIndex(st, idx, fkm) ==
  LET ptr == st.parsed_events[idx + 1].event_ptr
      event == st.events[ptr]
      is_kernel == fkm /\ event.misc % (PERF_RECORD_MISC_CPUMODE_MASK + 1) =
                            PERF_RECORD_MISC_KERNEL
      dso_info == IF event.type = PERF_RECORD_MMAP2
                  THEN DSOInfo(event.maj, event.min, event.ino)
                  ELSE DSOInfo(0, 0, 0)
      Mapped(r) ==
        IF ~r.ok
        THEN [status |-> "abort", st |-> r.st, first_kernel_mmap |-> fkm]
        ELSE [status |-> "continue",
              st |-> [r.st EXCEPT
                        !.parsed_events[idx + 1].num_samples_in_mmap_region = 0,
                        !.name_to_dso = IF event.filename \in DOMAIN @ THEN @
                                        ELSE (event.filename :> dso_info) @@ @],
              first_kernel_mmap |-> IF is_kernel THEN FALSE ELSE fkm]
  IN  Mapped(MapMmapEvent([st EXCEPT !.stats.num_mmap_events = @ + 1],
                          ptr, ptr - 1, is_kernel))

\* the MMAP / MMAP2 case with a latch that is never cleared
ProcessMmapKeepingLatch(st, idx, fkm) ==
  LET ptr == st.parsed_events[idx + 1].event_ptr
      event == st.events[ptr]
      is_kernel == fkm /\ event.misc % (PERF_RECORD_MISC_CPUMODE_MASK + 1) =
                            PERF_RECORD_MISC_KERNEL
      dso_info == IF event.type = PERF_RECORD_MMAP2
                  THEN DSOInfo(event.maj, event.min, event.ino)
                  ELSE DSOInfo(0, 0, 0)
      Mapped(r) ==
        IF ~r.ok
        THEN [status |-> "abort", st |-> r.st, first_kernel_mmap |-> fkm]
        ELSE [status |-> "continue",
              st |-> [r.st EXCEPT
                        !.parsed_events[idx + 1].num_samples_in_mmap_region = 0,
                        !.name_to_dso = IF event.filename \in DOMAIN @ THEN @
                                        ELSE (event.filename :> dso_info) @@ @],
              first_kernel_mmap |-> fkm]
  IN  Mapped(MapMmapEvent([st EXCEPT !.stats.num_mmap_events = @ + 1],
                          ptr, idx, is_kernel))

\* the MMAP / MMAP2 case
\* the MMAP case with "name_to_dso_[dso_info.name] = dso_info" where the code
\* has emplace
ProcessMmapReplacingDso(st, idx, fkm) ==
  LET ptr == st.parsed_events[idx + 1].event_ptr
      event == st.events[ptr]
      is_kernel == fkm /\ event.misc % (PERF_RECORD_MISC_CPUMODE_MASK + 1) =
                            PERF_RECORD_MISC_KERNEL
      dso_info == IF event.type = PERF_RECORD_MMAP2
                  THEN DSOInfo(event.maj, event.min, event.ino)
                  ELSE DSOInfo(0, 0, 0)
      Mapped(r) ==
        IF ~r.ok
        THEN [status |-> "abort", st |-> r.st, first_kernel_mmap |-> fkm]
        ELSE [status |-> "continue",
              st |-> [r.st EXCEPT
                        !.parsed_events[idx + 1].num_samples_in_mmap_region = 0,
                        !.name_to_dso = (event.filename :> dso_info) @@ @],
              first_kernel_mmap |-> IF is_kernel THEN FALSE ELSE fkm]
  IN  Mapped(MapMmapEvent([st EXCEPT !.stats.num_mmap_events = @ + 1],
                          ptr, idx, is_kernel))

ProcessMmap(st, idx, fkm) ==
  LET ptr == st.parsed_events[idx + 1].event_ptr
      event == st.events[ptr]
      is_kernel == fkm /\ event.misc % (PERF_RECORD_MISC_CPUMODE_MASK + 1) =
                            PERF_RECORD_MISC_KERNEL
      dso_info == IF event.type = PERF_RECORD_MMAP2
                  THEN DSOInfo(event.maj, event.min, event.ino)
                  ELSE DSOInfo(0, 0, 0)
      Mapped(r) ==
        IF ~r.ok
        THEN [status |-> "abort", st |-> r.st, first_kernel_mmap |-> fkm]
        ELSE [status |-> "continue",
              st |-> [r.st EXCEPT
                        !.parsed_events[idx + 1].num_samples_in_mmap_region = 0,
                        !.name_to_dso = IF event.filename \in DOMAIN @ THEN @
                                        ELSE (event.filename :> dso_info) @@ @],
              first_kernel_mmap |-> IF is_kernel THEN FALSE ELSE fkm]
  IN  Mapped(MapMmapEvent([st EXCEPT !.stats.num_mmap_events = @ + 1],
                          ptr, idx, is_kernel))

\* the COMM case
\* the COMM case that keeps the command a (pid, tid) has
ProcessCommKeepingFirst(st, event) ==
  LET Mapped(st0) ==
        [st0 EXCEPT !.commands = @ \cup {event.comm},
                    !.pidtid_to_comm_map = @ @@ (<<event.pid, event.tid>> :> event.comm)]
  IN  Mapped(MapCommEvent([st EXCEPT !.stats.num_comm_events = @ + 1], event))

ProcessComm(st, event) ==
  LET Mapped(st0) ==
        [st0 EXCEPT !.commands = @ \cup {event.comm},
                    !.pidtid_to_comm_map = (<<event.pid, event.tid>> :> event.comm) @@ @]
  IN  Mapped(MapCommEvent([st EXCEPT !.stats.num_comm_events = @ + 1], event))

ProcessOneEvent(st, idx, fkm) ==
  LET event == st.events[st.parsed_events[idx + 1].event_ptr]
      continue(s) == [status |-> "continue", st |-> s, first_kernel_mmap |-> fkm]
  IN  IF event.type >= PERF_RECORD_USER_TYPE_START
      THEN IF ProcessUserEvents(event) THEN continue(st)
           ELSE [status |-> "return_false", st |-> st, first_kernel_mmap |-> fkm]
      ELSE IF event.type = PERF_RECORD_SAMPLE
      THEN continue(MapSampleEvent([st EXCEPT !.stats.num_sample_events = @ + 1], idx + 1))
      ELSE IF event.type \in {PERF_RECORD_MMAP, PERF_RECORD_MMAP2}
      THEN ProcessMmap(st, idx, fkm)
      ELSE IF event.type = PERF_RECORD_FORK
      THEN continue(MapForkEvent([st EXCEPT !.stats.num_fork_events = @ + 1], event))
      ELSE IF event.type = PERF_RECORD_EXIT
      THEN continue([st EXCEPT !.stats.num_exit_events = @ + 1])
      ELSE IF event.type = PERF_RECORD_COMM
      THEN continue(ProcessComm(st, event))
      ELSE IF event.type \in NoOpTypes
      THEN continue(st)
      ELSE [status |-> "return_false", st |-> st, first_kernel_mmap |-> fkm]

(***************************************************************************)
(* FillInDsoBuildIds: [ok, name_to_dso, reader].  A build-id read from a   *)
(* file is a sequence of bytes; a build-id string is the sequence of its   *)
(* hexadecimal digits.                                                     *)
(***************************************************************************)
RECURSIVE RawDataToHexString(_)
RawDataToHexString(bytes) ==
  IF bytes = << >> THEN << >>
  ELSE <<Head(bytes) \div 16, Head(bytes) % 16>> \o RawDataToHexString(Tail(bytes))

\* what FindDsoBuildId returns for a DSO: the bytes found, or none
FindDsoBuildId(name) == IF name \in DOMAIN dso_probe THEN dso_probe[name] ELSE << >>

\* the build-ids found when the probe is asked for every DSO, hit or not
NewBuildIdsOfEveryDso(dsos) ==
  LET found == {name \in DOMAIN dsos :
                  options.read_missing_buildids /\ FindDsoBuildId(name) # << >>}
  IN  [name \in found |-> RawDataToHexString(FindDsoBuildId(name))]

\* the build-ids the probe is asked for and finds
NewBuildIds(dsos) ==
  LET found == {name \in DOMAIN dsos :
                  options.read_missing_buildids /\ dsos[name].hit /\
                  FindDsoBuildId(name) # << >>}
  IN  [name \in found |-> RawDataToHexString(FindDsoBuildId(name))]

\* reader_->InjectBuildIDs: [ok, reader]
InjectBuildIDs(rd, new_buildids) ==
  IF rd.inject_ok
  THEN [ok |-> TRUE,
        reader |-> [rd EXCEPT !.filenames_to_build_ids = new_buildids @@ @]]
  ELSE [ok |-> FALSE, reader |-> rd]

FillInDsoBuildIds(dsos, rd) ==
  LET Filled(new_buildids) ==
        [name \in DOMAIN dsos |->
           [dsos[name] EXCEPT !.build_id =
              IF name \in DOMAIN new_buildids THEN new_buildids[name]
              ELSE IF name \in DOMAIN rd.filenames_to_build_ids
              THEN rd.filenames_to_build_ids[name]
              ELSE @]]
      Injected(inj, filled) ==
        [ok |-> inj.ok, name_to_dso |-> filled, reader |-> inj.reader]
      Found(new_buildids) ==
        IF DOMAIN new_buildids = {}
        THEN [ok |-> TRUE, name_to_dso |-> Filled(new_buildids), reader |-> rd]
        ELSE Injected(InjectBuildIDs(rd, new_buildids), Filled(new_buildids))
  IN  Found(NewBuildIds(dsos))

(***************************************************************************)
(* Actions                                                                 *)
(***************************************************************************)
\* the positions of the records that are not FINISHED_ROUND, in order
KeptPositions(evs) ==
  LET Kept(k) == evs[k].type # PERF_RECORD_FINISHED_ROUND
  IN  SelectSeq([k \in 1..Len(evs) |-> k], Kept)

\* the number of ParseRawEvents calls on one parser
MaxParses == 2

\* ParseRawEvents up to the loop of ProcessEvents.  The options
\* sort_events_by_time, deduce_huge_page_mappings and combine_mappings are
\* off: the passes they enable are outside the sources at hand.
ParseRawEvents_Begin ==
  /\ pc \in {"idle", "done"}
  /\ parses < MaxParses
  /\ \E numbered \in {[k \in 1..Len(events) |-> [events[k] EXCEPT !.rid = k]]} :
     \E kept \in {KeptPositions(numbered)} :
         /\ events' = numbered
         /\ input' = numbered
         /\ parsed_events' = [k \in 1..Len(kept) |-> ParsedEvent(kept[k])]
  /\ process_mappers' = << >>
  /\ stats' = ZeroStats
  /\ commands' = commands \cup {kSwapperCommandName}
  /\ pidtid_to_comm_map' =
       (<<kSwapperPid, kSwapperPid>> :> kSwapperCommandName) @@ pidtid_to_comm_map
  /\ first_kernel_mmap' = TRUE
  /\ i' = 0
  /\ pc' = "loop"
  /\ ret_site' = "none"
  /\ process_events_result' = FALSE
  /\ parse_result' = FALSE
  /\ parses' = parses + 1
  /\ last_log' = "none"
  /\ UNCHANGED <<options, reader, dso_probe, name_to_dso>>

\* one iteration of the loop of ProcessEvents
ProcessEvents_Step ==
  /\ pc = "loop"
  /\ i < Len(parsed_events)
  /\ \E r \in {ProcessOneEvent(ParserState, i, first_kernel_mmap)} :
         /\ events' = r.st.events
         /\ parsed_events' = r.st.parsed_events
         /\ process_mappers' = r.st.process_mappers
         /\ name_to_dso' = r.st.name_to_dso
         /\ commands' = r.st.commands
         /\ pidtid_to_comm_map' = r.st.pidtid_to_comm_map
         /\ stats' = r.st.stats
         /\ first_kernel_mmap' = r.first_kernel_mmap
         /\ i' = IF r.status = "continue" THEN i + 1 ELSE i
         /\ pc' = CASE r.status = "continue" -> "loop"
                    [] r.status = "return_false" -> "returned"
                    [] r.status = "abort" -> "aborted"
         /\ ret_site' = IF r.status = "return_false" THEN "unknown_type" ELSE ret_site
         /\ process_events_result' =
              IF r.status = "return_false" THEN FALSE ELSE process_events_result
         /\ last_log' = IF r.status = "return_false"
                        THEN "ERROR: Unknown event type" ELSE last_log
  /\ UNCHANGED <<options, reader, dso_probe, parse_result, parses, input>>

\* ProcessEvents after its loop: build-ids, then the checks on the counts
ProcessEvents_Finish ==
  /\ pc = "loop"
  /\ i = Len(parsed_events)
  /\ \E fill \in {FillInDsoBuildIds(name_to_dso, reader)} :
     \E site \in {IF ~fill.ok THEN "fill"
                  ELSE IF stats.num_sample_events = 0 THEN "no_samples"
                  ELSE IF BelowThreshold(stats.num_sample_events_mapped,
                                         stats.num_sample_events,
                                         options.sample_mapping_percentage_threshold)
                  THEN "ratio"
                  ELSE "ok"} :
         /\ name_to_dso' = fill.name_to_dso
         /\ reader' = fill.reader
         /\ ret_site' = site
         /\ process_events_result' = (site = "ok")
         /\ stats' = IF site = "ok" THEN [stats EXCEPT !.did_remap = options.do_remap]
                     ELSE stats
         /\ last_log' =
              CASE site = "no_samples" /\ fill.reader.skip_sample ->
                     "INFO: no sample events due to PERF_RECORD_SAMPLE being skipped"
                [] site = "no_samples" /\ ~fill.reader.skip_sample ->
                     "ERROR: no sample events"
                [] site = "ratio" -> "ERROR: too few samples mapped"
                [] OTHER -> last_log
  /\ pc' = "returned"
  /\ UNCHANGED <<options, dso_probe, events, parsed_events, process_mappers, commands,
                 pidtid_to_comm_map, i, first_kernel_mmap, parse_result, parses, input>>

\* a pruning that drops every MMAP and MMAP2
DropEveryMmap(pes, evs) ==
  LET NotMmap(pe) == ~HasMmapEvent(evs[pe.event_ptr])
  IN  SelectSeq(pes, NotMmap)

\* the parsed events that the pruning keeps
DropUnusedMmaps(pes, evs) ==
  LET Used(pe) ==
        ~(HasMmapEvent(evs[pe.event_ptr]) /\ pe.num_samples_in_mmap_region = 0)
  IN  SelectSeq(pes, Used)

\* ParseRawEvents after ProcessEvents, UpdatePerfEventsFromParsedEvents included
ParseRawEvents_Finish ==
  /\ pc = "returned"
  /\ IF ~options.discard_unused_events
     THEN UNCHANGED <<events, parsed_events>>
     ELSE \E kept \in {DropUnusedMmaps(parsed_events, events)} :
              /\ events' = [k \in 1..Len(kept) |-> events[kept[k].event_ptr]]
              /\ parsed_events' = [k \in 1..Len(kept) |-> [kept[k] EXCEPT !.event_ptr = k]]
  /\ parse_result' = TRUE
  /\ pc' = "done"
  /\ UNCHANGED <<options, reader, dso_probe, process_mappers, name_to_dso, commands,
                 pidtid_to_comm_map, stats, i, first_kernel_mmap, ret_site,
                 process_events_result, parses, input, last_log>>

Next ==
  \/ ParseRawEvents_Begin
  \/ ProcessEvents_Step
  \/ ProcessEvents_Finish
  \/ ParseRawEvents_Finish

(***************************************************************************)
(* Initial states: a parser constructed on a reader that holds the records *)
(***************************************************************************)
\* the number of records of an input list
MaxEvents == 3

SeqsUpTo(S, n) == UNION {[1..k -> S] : k \in 0..n}

PerfParserOptions(do_remap, discard_unused_events, read_missing_buildids, threshold) ==
  [do_remap |-> do_remap, discard_unused_events |-> discard_unused_events,
   read_missing_buildids |-> read_missing_buildids,
   sample_mapping_percentage_threshold |-> threshold]

PerfReader(skip_sample, filenames_to_build_ids, inject_ok) ==
  [skip_sample |-> skip_sample, filenames_to_build_ids |-> filenames_to_build_ids,
   inject_ok |-> inject_ok]

InitWith(Inputs, Options, Readers, Probes) ==
  /\ events \in Inputs
  /\ options \in Options
  /\ reader \in Readers
  /\ dso_probe \in Probes
  /\ parsed_events = << >>
  /\ process_mappers = << >>
  /\ name_to_dso = << >>
  /\ commands = {}
  /\ pidtid_to_comm_map = << >>
  /\ stats = ZeroStats
  /\ i = 0
  /\ first_kernel_mmap = TRUE
  /\ pc = "idle"
  /\ ret_site = "none"
  /\ process_events_result = FALSE
  /\ parse_result = FALSE
  /\ parses = 0
  /\ input = << >>
  /\ last_log = "none"

(***************************************************************************)
(* Inputs                                                                  *)
(***************************************************************************)
UserPid == 7

NoBuildIds == << >>

PlainReader == PerfReader(FALSE, NoBuildIds, TRUE)

\* a reader told to skip PERF_RECORD_SAMPLE when serializing
SkippingReader == PerfReader(TRUE, NoBuildIds, TRUE)

PlainOptions ==
  {PerfParserOptions(r, d, FALSE, 50) : r \in BOOLEAN, d \in BOOLEAN}

\* MMAP(pid=7, start=0x1000, len=0x1000, pgoff=0, "/bin/x")
UserMmapX ==
  MmapEvent(PERF_RECORD_MISC_USER, UserPid, U64(0, 0, 0, \h1000), U64(0, 0, 0, \h1000),
            U64Zero, "/bin/x")

\* a kernel MMAP whose pgoff lies inside [start, start + len)
KernelMmapSmall ==
  MmapEvent(PERF_RECORD_MISC_KERNEL, kKernelPid, U64(0, 0, 0, \h4000),
            U64(0, 0, 0, \h8000), U64(0, 0, 0, \h6000), "[kernel.kallsyms]")

\* a sample inside /bin/x
SampleInX == SampleEvent(UserPid, UserPid, U64(0, 0, 0, \h1100), U64Zero, << >>, << >>)

\* a sample whose ip is in no mapping and whose data address is inside /bin/x
SampleIpNowhere ==
  SampleEvent(UserPid, UserPid, U64(0, 0, 0, \h9100), U64(0, 0, 0, \h1200), << >>, << >>)

\* a sample inside /bin/x whose branch stack has a non-null entry after a
\* null one
SampleBadBranchStack ==
  SampleEvent(UserPid, UserPid, U64(0, 0, 0, \h1100), U64Zero, << >>,
              <<BranchStackEntry(U64(0, 0, 0, \h1100), U64(0, 0, 0, \h1180)),
                BranchStackEntry(U64Zero, U64Zero),
                BranchStackEntry(U64(0, 0, 0, \h1100), U64(0, 0, 0, \h1180))>>)

GeneralRecords ==
  {UserMmapX, KernelMmapSmall, SampleInX, SampleIpNowhere, SampleBadBranchStack,
   OtherEvent(PERF_RECORD_READ), OtherEvent(PERF_RECORD_TIME_CONV)}

Init ==
  InitWith(SeqsUpTo(GeneralRecords, MaxEvents), PlainOptions,
           {PlainReader, SkippingReader}, {<< >>})

Spec == Init /\ [][Next]_vars

(***************************************************************************)
(* One MMAP and NumSamples samples, the first k of them inside the         *)
(* mapping: the check of the mapping ratio                                 *)
(***************************************************************************)
NumSamples == 100

RatioInput(k) ==
  <<UserMmapX>> \o [n \in 1..NumSamples |-> IF n <= k THEN SampleInX ELSE SampleIpNowhere]

InitRatio ==
  InitWith({RatioInput(k) : k \in {53, 80}},
           {PerfParserOptions(FALSE, FALSE, FALSE, t) : t \in {53, 75, 95}},
           {PlainReader}, {<< >>})

SpecRatio == InitRatio /\ [][Next]_vars

(***************************************************************************)
(* Several mappings of one process, not in address order, and a sample     *)
(* with every kind of address: remapping                                   *)
(***************************************************************************)
MaxRemapEvents == 4

MmapLow ==
  MmapEvent(PERF_RECORD_MISC_USER, UserPid, U64(0, 0, 0, \h1000), U64(0, 0, 0, \h1000),
            U64Zero, "/lib/low")

MmapMid ==
  MmapEvent(PERF_RECORD_MISC_USER, UserPid, U64(0, 0, 0, \h5000), U64(0, 0, 0, \h1000),
            U64Zero, "/lib/mid")

MmapHigh ==
  MmapEvent(PERF_RECORD_MISC_USER, UserPid, U64(0, 0, 0, \h9000), U64(0, 0, 0, \h1000),
            U64Zero, "/lib/high")

\* a mapping of half a page
MmapHalfPage ==
  MmapEvent(PERF_RECORD_MISC_USER, UserPid, U64(0, 0, 0, \h3000), U64(0, 0, 0, \h0800),
            U64Zero, "/lib/half")

\* ip in /lib/mid, data address in /lib/high, a call chain holding the ip
\* and an address in /lib/low, a branch from /lib/mid to /lib/low
SampleAcross ==
  SampleEvent(UserPid, UserPid, U64(0, 0, 0, \h5100), U64(0, 0, 0, \h9200),
              <<U64(0, 0, 0, \h5100), U64(0, 0, 0, \h1080)>>,
              <<BranchStackEntry(U64(0, 0, 0, \h5100), U64(0, 0, 0, \h1040))>>)

RemapRecords == {MmapLow, MmapMid, MmapHigh, MmapHalfPage, SampleAcross}

InitRemap ==
  InitWith(SeqsUpTo(RemapRecords, MaxRemapEvents),
           {PerfParserOptions(r, FALSE, FALSE, 50) : r \in BOOLEAN},
           {PlainReader}, {<< >>})

SpecRemap == InitRemap /\ [][Next]_vars

(***************************************************************************)
(* The kernel MMAP of an x86-64 capture taken as root (the example in the  *)
(* comment of MapMmapEvent)                                                *)
(***************************************************************************)
KernelMmapX86_64 ==
  MmapEvent(PERF_RECORD_MISC_KERNEL, kKernelPid, U64(0, 0, \h3bc0, 0),
            U64(\hffff, \hffff, \h843f, \hffff), U64(\hffff, \hffff, \hbcc0, \h0198),
            "[kernel.kallsyms]")

\* a sample 0x100 bytes after the pgoff of the kernel MMAP
SampleInKernel ==
  SampleEvent(UserPid, UserPid, U64(\hffff, \hffff, \hbcc0, \h0298), U64Zero, << >>, << >>)

KernelRecords == {KernelMmapX86_64, SampleInKernel, UserMmapX, SampleInX}

InitKernel ==
  InitWith(SeqsUpTo(KernelRecords, MaxEvents),
           {PerfParserOptions(r, FALSE, FALSE, 50) : r \in BOOLEAN},
           {PlainReader}, {<< >>})

SpecKernel == InitKernel /\ [][Next]_vars

(***************************************************************************)
(* Properties                                                              *)
(***************************************************************************)
\* the loop of ProcessEvents is about to process a record
Stepping == pc = "loop" /\ i < Len(parsed_events)

\* that record, and its place in the list of the reader
CurrentPtr == parsed_events[i + 1].event_ptr

CurrentEvent == events[CurrentPtr]

\* the record the loop has just processed
LastEvent == events[parsed_events[i].event_ptr]

InInterval(iv, addr) ==
  U64Le(iv.start, addr) /\ U64Lt(U64Sub(addr, iv.start), iv.len)

\* the mapper a lookup for pid consults: its own, or else the one it is
\* about to get
MapperOf(mappers, pid) ==
  IF pid \in DOMAIN mappers THEN mappers[pid]
  ELSE IF kKernelPid \in DOMAIN mappers THEN mappers[kKernelPid]
  ELSE << >>

InNoInterval(mappers, pid, addr) ==
  \A k \in 1..Len(MapperOf(mappers, pid)) : ~InInterval(MapperOf(mappers, pid)[k], addr)

\* a non-null entry after a null one
Malformed(branch_stack) ==
  \E a \in 1..Len(branch_stack) : \E b \in 1..Len(branch_stack) :
    /\ a < b
    /\ branch_stack[a].from_ip = U64Zero /\ branch_stack[a].to_ip = U64Zero
    /\ (branch_stack[b].from_ip # U64Zero \/ branch_stack[b].to_ip # U64Zero)

SampleCounts(pes) == [k \in 1..Len(pes) |-> pes[k].num_samples_in_mmap_region]

\* C1: whenever ProcessEvents has returned false, ParseRawEvents returns
\* false.
C1_ParseReportsFailure ==
  (pc = "done" /\ ~process_events_result) => ~parse_result

\* C2: with at least one sample, ProcessEvents fails on the ratio exactly
\* when mapped / samples * 100 is below the threshold, and succeeds when the
\* ratio is at or above it.
C2_RatioDecidesExactly ==
  (pc = "returned" /\ ret_site \in {"ratio", "ok"}) =>
    (process_events_result <=>
       stats.num_sample_events_mapped * 100 >=
         options.sample_mapping_percentage_threshold * stats.num_sample_events)

\* C3: when SAMPLE is in the reader's set of types to skip, a parse that
\* saw no sample does not fail on account of the zero count.
C3_SkippedSamplesDoNotFail ==
  (pc \in {"returned", "done"} /\ reader.skip_sample) => ret_site # "no_samples"

\* the types that the switch of ProcessEvents names
SwitchTypes ==
  {PERF_RECORD_SAMPLE, PERF_RECORD_MMAP, PERF_RECORD_MMAP2, PERF_RECORD_FORK,
   PERF_RECORD_EXIT, PERF_RECORD_COMM, PERF_RECORD_LOST, PERF_RECORD_THROTTLE,
   PERF_RECORD_UNTHROTTLE, PERF_RECORD_AUX, PERF_RECORD_ITRACE_START,
   PERF_RECORD_LOST_SAMPLES, PERF_RECORD_SWITCH, PERF_RECORD_SWITCH_CPU_WIDE,
   PERF_RECORD_NAMESPACES, PERF_RECORD_CGROUP}

\* C4: a record of a type below USER_TYPE_START that the switch does not
\* name makes ProcessEvents return false at that record, with no state
\* changed, and after that return neither a further record is processed nor
\* the build-ids are filled; a record of a type at or above USER_TYPE_START
\* lets the loop go on to the next record and changes no parser state.
C4_UnknownTypeFailsUserTypePasses ==
  [][/\ (Stepping /\ CurrentEvent.type < PERF_RECORD_USER_TYPE_START
                  /\ CurrentEvent.type \notin SwitchTypes) =>
          /\ pc' = "returned" /\ ~process_events_result' /\ ret_site' = "unknown_type"
          /\ UNCHANGED <<events, parsed_events, process_mappers, name_to_dso, commands,
                         pidtid_to_comm_map, stats, reader, i>>
     /\ (ret_site = "unknown_type" /\ pc = "returned") =>
          /\ pc' = "done"
          /\ UNCHANGED <<process_mappers, name_to_dso, commands, pidtid_to_comm_map,
                         stats, reader, i, process_events_result>>
     /\ (Stepping /\ CurrentEvent.type >= PERF_RECORD_USER_TYPE_START) =>
          /\ pc' = "loop" /\ i' = i + 1
          /\ UNCHANGED <<events, parsed_events, process_mappers, name_to_dso, commands,
                         pidtid_to_comm_map, stats, reader, first_kernel_mmap>>
    ]_vars

\* a parse that went past a record of a user type and then returned at a
\* record of an unknown type that was not the last one
C4_Witness ==
  /\ pc = "returned" /\ ret_site = "unknown_type"
  /\ i + 1 < Len(parsed_events)
  /\ \E k \in 1..i :
       events[parsed_events[k].event_ptr].type >= PERF_RECORD_USER_TYPE_START

C6_UnmappedIpIsNotFatal ==
  [][(Stepping /\ CurrentEvent.type = PERF_RECORD_SAMPLE
               /\ InNoInterval(process_mappers, CurrentEvent.pid, CurrentEvent.ip)) =>
       /\ pc' = "loop" /\ i' = i + 1
       /\ events'[CurrentPtr].ip = CurrentEvent.ip
       /\ stats'.num_sample_events = stats.num_sample_events + 1
       /\ stats'.num_sample_events_mapped = stats.num_sample_events_mapped
       /\ parsed_events'[i + 1].dso_and_offset = NullDSOAndOffset
       /\ \E r \in {MapIPAndPidAndGetNameAndOffset(
                      ParserState, CurrentEvent.ip,
                      <<CurrentEvent.pid, CurrentEvent.tid>>)} :
            /\ ~r.ok
            /\ r.st.name_to_dso = name_to_dso
            /\ SampleCounts(r.st.parsed_events) = SampleCounts(parsed_events)
       /\ (CurrentEvent.addr = U64Zero /\ CurrentEvent.callchain = << >>
                                        /\ CurrentEvent.branch_stack = << >>) =>
            /\ name_to_dso' = name_to_dso
            /\ SampleCounts(parsed_events') = SampleCounts(parsed_events)
    ]_vars

\* the loop has just passed a sample whose ip is outside the one mapping of
\* its pid, and there are records left
C6_Witness ==
  /\ pc = "loop" /\ i >= 1 /\ i < Len(parsed_events)
  /\ LastEvent.type = PERF_RECORD_SAMPLE
  /\ LastEvent.pid \in DOMAIN process_mappers
  /\ Len(process_mappers[LastEvent.pid]) > 0
  /\ InNoInterval(process_mappers, LastEvent.pid, LastEvent.ip)
  /\ stats.num_sample_events_mapped < stats.num_sample_events

SameMmapAndSampleAddresses(e, o) ==
  /\ e.start = o.start /\ e.len = o.len /\ e.pgoff = o.pgoff
  /\ e.ip = o.ip /\ e.addr = o.addr

SameAddresses(e, o) ==
  /\ SameMmapAndSampleAddresses(e, o)
  /\ e.callchain = o.callchain /\ e.branch_stack = o.branch_stack

\* C8: with do_remap = true, a parse of the records that an earlier parse
\* left behind changes no address of any record.
C8_SecondRemapChangesNothing ==
  (pc = "done" /\ parses >= 2 /\ options.do_remap) =>
    \A k \in 1..Len(events) : SameAddresses(events[k], input[events[k].rid])

\* what the lookup of addr is to store under do_remap: the synthetic start
\* of the interval that holds addr plus the distance of addr from the start
\* of the interval when that has the page offset of addr, and addr otherwise
Remapped(m, addr) ==
  IF \E k \in 1..Len(m) :
       /\ InInterval(m[k], addr)
       /\ U64Add(SyntheticStart(m, k), U64Sub(addr, m[k].start))[4] % kMmapPageAlignment =
            addr[4] % kMmapPageAlignment
  THEN LET k == CHOOSE k \in 1..Len(m) : InInterval(m[k], addr)
       IN  U64Add(SyntheticStart(m, k), U64Sub(addr, m[k].start))
  ELSE addr

\* C9: with do_remap = true the ip and the data address of a sample are
\* rewritten to synthetic_start(I) + (a - I.start), I being the interval of
\* the mapper of the pid that holds a, which has the page offset of a; an
\* address that is in no interval, or whose synthetic address has another
\* page offset, is kept.  With do_remap = false they are kept.
C9_RemappedAddressIsLinear ==
  [][(Stepping /\ CurrentEvent.type = PERF_RECORD_SAMPLE) =>
       /\ options.do_remap =>
            /\ events'[CurrentPtr].ip =
                 Remapped(MapperOf(process_mappers, CurrentEvent.pid), CurrentEvent.ip)
            /\ events'[CurrentPtr].ip[4] % kMmapPageAlignment =
                 CurrentEvent.ip[4] % kMmapPageAlignment
            /\ CurrentEvent.addr # U64Zero =>
                 /\ events'[CurrentPtr].addr =
                      Remapped(MapperOf(process_mappers, CurrentEvent.pid),
                               CurrentEvent.addr)
                 /\ events'[CurrentPtr].addr[4] % kMmapPageAlignment =
                      CurrentEvent.addr[4] % kMmapPageAlignment
       /\ ~options.do_remap =>
            /\ events'[CurrentPtr].ip = CurrentEvent.ip
            /\ events'[CurrentPtr].addr = CurrentEvent.addr
    ]_vars

\* a remapping parse has rewritten the ip 0x5100 of a sample to 0x1100 and
\* its data address 0x9200 to 0x2200: three mappings, the sample in the
\* second and the third of them
C9_Witness ==
  /\ pc = "loop" /\ i >= 1 /\ options.do_remap /\ parses = 1
  /\ LastEvent.type = PERF_RECORD_SAMPLE
  /\ input[LastEvent.rid].ip = U64(0, 0, 0, \h5100)
  /\ LastEvent.ip = U64(0, 0, 0, \h1100)
  /\ input[LastEvent.rid].addr = U64(0, 0, 0, \h9200)
  /\ LastEvent.addr = U64(0, 0, 0, \h2200)

IsKernelMmapX86_64(e) ==
  /\ e.type = PERF_RECORD_MMAP
  /\ e.misc = PERF_RECORD_MISC_KERNEL
  /\ e.start = U64(0, 0, \h3bc0, 0)
  /\ e.len = U64(\hffff, \hffff, \h843f, \hffff)
  /\ e.pgoff = U64(\hffff, \hffff, \hbcc0, \h0198)

\* C10 as claimed: the first kernel MMAP with start 0x3bc00000, len
\* 0xffffffff843fffff and pgoff 0xffffffffbcc00198 is normalized to start
\* 0xffffffffbcc00198, len 0x840400067 and pgoff 0, and under do_remap its
\* start is rewritten to 0.
C10_KernelMmapAsClaimed ==
  [][(Stepping /\ first_kernel_mmap /\ IsKernelMmapX86_64(CurrentEvent)) =>
       /\ NormalizeMmap(CurrentEvent.start, CurrentEvent.len, CurrentEvent.pgoff, TRUE) =
            [start |-> U64(\hffff, \hffff, \hbcc0, \h0198),
             len |-> U64(0, \h0008, \h4040, \h0067),
             pgoff |-> U64Zero]
       /\ options.do_remap => events'[CurrentPtr].start = U64Zero
    ]_vars

\* C10 amended: that MMAP is normalized to start 0xffffffffbcc00198, len
\* 0x33ffe67 and pgoff 0, which is the interval the kernel mapper holds when
\* the loop goes on; under do_remap its start is not rewritten to 0: a
\* rewritten start has the page offset 0x198 of the normalized start, and
\* comes with len 0x33ffe67 and pgoff 0.
C10_KernelMmapNormalized ==
  [][(Stepping /\ first_kernel_mmap /\ IsKernelMmapX86_64(CurrentEvent)) =>
       /\ NormalizeMmap(CurrentEvent.start, CurrentEvent.len, CurrentEvent.pgoff, TRUE) =
            [start |-> U64(\hffff, \hffff, \hbcc0, \h0198),
             len |-> U64(0, 0, \h033f, \hfe67),
             pgoff |-> U64Zero]
       /\ pc' = "loop" =>
            \E j \in 1..Len(process_mappers'[kKernelPid]) :
              /\ process_mappers'[kKernelPid][j].start = U64(\hffff, \hffff, \hbcc0, \h0198)
              /\ process_mappers'[kKernelPid][j].len = U64(0, 0, \h033f, \hfe67)
              /\ process_mappers'[kKernelPid][j].pgoff = U64Zero
       /\ events'[CurrentPtr].start # U64Zero
       /\ events'[CurrentPtr] # CurrentEvent =>
            /\ options.do_remap
            /\ events'[CurrentPtr].start[4] % kMmapPageAlignment = 408
            /\ events'[CurrentPtr].len = U64(0, 0, \h033f, \hfe67)
            /\ events'[CurrentPtr].pgoff = U64Zero
    ]_vars

\* a remapping parse has handed that MMAP to the kernel mapper, which holds
\* the normalized interval, and has not rewritten the record
C10_Witness ==
  /\ options.do_remap
  /\ pc = "aborted" /\ i < Len(parsed_events)
  /\ IsKernelMmapX86_64(CurrentEvent)
  /\ CurrentEvent = input[CurrentEvent.rid]
  /\ kKernelPid \in DOMAIN process_mappers
  /\ \E j \in 1..Len(process_mappers[kKernelPid]) :
       /\ process_mappers[kKernelPid][j].start = U64(\hffff, \hffff, \hbcc0, \h0198)
       /\ process_mappers[kKernelPid][j].len = U64(0, 0, \h033f, \hfe67)

\* an MMAP or MMAP2 whose cpu mode is KERNEL
IsKernelModeMmap(e) ==
  /\ HasMmapEvent(e)
  /\ e.misc % (PERF_RECORD_MISC_CPUMODE_MASK + 1) = PERF_RECORD_MISC_KERNEL

\* C11: an MMAP or MMAP2 goes into the mapper of its pid normalized (start
\* and len adjusted, pgoff 0) exactly when its cpu mode is KERNEL and no
\* record before it in this parse is an MMAP or MMAP2 of cpu mode KERNEL;
\* any other MMAP, user-mode ones before the kernel one and kernel-mode ones
\* after it included, goes in with its own start, len and pgoff.
C11_FirstKernelMmapOnlyIsNormalized ==
  [][(Stepping /\ HasMmapEvent(CurrentEvent) /\ pc' = "loop") =>
       \E first \in {IsKernelModeMmap(CurrentEvent) /\
                     \A k \in 1..i : ~IsKernelModeMmap(events[parsed_events[k].event_ptr])} :
         /\ first = (first_kernel_mmap /\ ~first_kernel_mmap')
         /\ \E n \in {NormalizeMmap(CurrentEvent.start, CurrentEvent.len,
                                    CurrentEvent.pgoff, first)} :
              \E j \in 1..Len(process_mappers'[CurrentEvent.pid]) :
                process_mappers'[CurrentEvent.pid][j] = Interval(n.start, n.len, n.pgoff, i)
         /\ ~first =>
              \E j \in 1..Len(process_mappers'[CurrentEvent.pid]) :
                process_mappers'[CurrentEvent.pid][j] =
                  Interval(CurrentEvent.start, CurrentEvent.len, CurrentEvent.pgoff, i)
    ]_vars

\* a user-mode MMAP, then a kernel-mode MMAP, then a second kernel-mode MMAP
\* that has just gone into the kernel mapper with its pgoff kept
C11_Witness ==
  /\ pc = "loop" /\ i = 3 /\ ~options.do_remap /\ ~first_kernel_mmap
  /\ HasMmapEvent(events[parsed_events[1].event_ptr])
  /\ ~IsKernelModeMmap(events[parsed_events[1].event_ptr])
  /\ IsKernelModeMmap(events[parsed_events[2].event_ptr])
  /\ IsKernelModeMmap(LastEvent)
  /\ \E j \in 1..Len(process_mappers[kKernelPid]) :
       /\ process_mappers[kKernelPid][j].id = 2
       /\ process_mappers[kKernelPid][j].pgoff = LastEvent.pgoff
       /\ LastEvent.pgoff # U64Zero

(***************************************************************************)
(* Two mappings of one process and samples with call chains                *)
(***************************************************************************)
MaxChainEvents == 3

\* MMAP(pid=7, start=0x2000, len=0x1000, pgoff=0, "/bin/y")
UserMmapY ==
  MmapEvent(PERF_RECORD_MISC_USER, UserPid, U64(0, 0, 0, \h2000), U64(0, 0, 0, \h1000),
            U64Zero, "/bin/y")

\* (u64)-128
ContextKernel == U64(\hffff, \hffff, \hffff, \hff80)

\* (u64)-512
ContextUser == U64(\hffff, \hffff, \hffff, \hfe00)

\* ip in /bin/x; call chain: a context marker, 0xdeadbeef (in no mapping),
\* the ip of the sample, 0x2080 (in /bin/y)
SampleChainS5 ==
  SampleEvent(UserPid, UserPid, U64(0, 0, 0, \h1100), U64Zero,
              <<ContextKernel, U64(0, 0, \hdead, \hbeef), U64(0, 0, 0, \h1100),
                U64(0, 0, 0, \h2080)>>,
              << >>)

\* ip in /bin/y, data address in no mapping; call chain: a context marker,
\* an address in /bin/x, the ip of the sample; one branch inside /bin/y
SampleChainMapped ==
  SampleEvent(UserPid, UserPid, U64(0, 0, 0, \h2040), U64(0, 0, 0, \h9200),
              <<ContextUser, U64(0, 0, 0, \h1040), U64(0, 0, 0, \h2040)>>,
              <<BranchStackEntry(U64(0, 0, 0, \h2040), U64(0, 0, 0, \h2080))>>)

ChainRecords ==
  {UserMmapX, UserMmapY, SampleChainS5, SampleChainMapped, SampleBadBranchStack}

InitChain ==
  InitWith(SeqsUpTo(ChainRecords, MaxChainEvents),
           {PerfParserOptions(r, FALSE, FALSE, 50) : r \in BOOLEAN},
           {PlainReader}, {<< >>})

SpecChain == InitChain /\ [][Next]_vars

IsContextMarker(entry) == ~U64Lt(entry, PERF_CONTEXT_MAX)

\* C12: the step that maps a sample leaves the call chain of the sample with
\* the length it had, and every entry that is a context marker (>=
\* PERF_CONTEXT_MAX) in its place with its value.
C12_CallchainKeepsLengthAndMarkers ==
  [][(Stepping /\ CurrentEvent.type = PERF_RECORD_SAMPLE) =>
       /\ Len(events'[CurrentPtr].callchain) = Len(CurrentEvent.callchain)
       /\ \A j \in 1..Len(CurrentEvent.callchain) :
            IsContextMarker(CurrentEvent.callchain[j]) =>
              events'[CurrentPtr].callchain[j] = CurrentEvent.callchain[j]
    ]_vars

\* the loop has just mapped, with do_remap, a sample whose call chain of four
\* entries starts with a context marker and whose other entries were all
\* rewritten
C12_Witness ==
  /\ pc = "loop" /\ i >= 1 /\ options.do_remap /\ parses = 1
  /\ LastEvent.type = PERF_RECORD_SAMPLE
  /\ Len(LastEvent.callchain) = 4
  /\ LastEvent.callchain[1] = ContextKernel
  /\ \A j \in 2..4 : LastEvent.callchain[j] # input[parsed_events[i].event_ptr].callchain[j]

\* the entries of the call chain of sample e that are looked up in the mapper
\* and found there
MappedChainEntries(e) ==
  {j \in 1..Len(e.callchain) :
     /\ ~IsContextMarker(e.callchain[j])
     /\ e.callchain[j] # e.ip
     /\ MapIPAndPidAndGetNameAndOffset(ParserState, e.callchain[j], <<e.pid, e.tid>>).ok}

\* C13: after the step that maps a sample, parsed_event.callchain has as many
\* entries as the call chain has entries that were mapped; context markers,
\* the entry equal to the ip of the sample and entries that failed to map
\* take no slot.
C13_ParsedCallchainHoldsMappedEntriesOnly ==
  [][(Stepping /\ CurrentEvent.type = PERF_RECORD_SAMPLE) =>
       Len(parsed_events'[i + 1].callchain) = Cardinality(MappedChainEntries(CurrentEvent))
    ]_vars

\* C14: the step that maps a sample rewrites each entry e of its call chain
\* by one rule: e >= PERF_CONTEXT_MAX stays; e equal to the ip the sample
\* came with becomes the ip the sample leaves with; any other e that lies in
\* an interval of the mapper of the pid becomes its mapped address (itself
\* without do_remap), and one that lies in none becomes e | (1 << 63) and
\* keeps the sample from being counted as mapped.
C14_EachEntryRewrittenByOneRule ==
  [][(Stepping /\ CurrentEvent.type = PERF_RECORD_SAMPLE) =>
       \A j \in 1..Len(CurrentEvent.callchain) :
         \E e \in {CurrentEvent.callchain[j]} :
           IF IsContextMarker(e)
           THEN events'[CurrentPtr].callchain[j] = e
           ELSE IF e = CurrentEvent.ip
           THEN events'[CurrentPtr].callchain[j] = events'[CurrentPtr].ip
           ELSE IF InNoInterval(process_mappers, CurrentEvent.pid, e)
           THEN /\ events'[CurrentPtr].callchain[j] = U64SetTopBit(e)
                /\ stats'.num_sample_events_mapped = stats.num_sample_events_mapped
           ELSE events'[CurrentPtr].callchain[j] =
                  IF options.do_remap
                  THEN Remapped(MapperOf(process_mappers, CurrentEvent.pid), e)
                  ELSE e
    ]_vars

\* the loop has just mapped, with do_remap, the sample of scenario S5 with
\* both mappings in place: the marker kept, 0xdeadbeef tagged, the ip and
\* 0x2080 remapped
C14_Witness ==
  /\ pc = "loop" /\ i = 3 /\ options.do_remap /\ parses = 1
  /\ input[parsed_events[3].event_ptr] = [SampleChainS5 EXCEPT !.rid = 3]
  /\ LastEvent.callchain[1] = ContextKernel
  /\ LastEvent.callchain[2] = U64(\h8000, 0, \hdead, \hbeef)
  /\ LastEvent.callchain[3] = LastEvent.ip
  /\ LastEvent.ip # SampleChainS5.ip
  /\ LastEvent.callchain[4][1] = 0
  /\ LastEvent.callchain[4] # U64(0, 0, 0, \h2080)

\* address a of sample e lies in an interval of the mapper its pid has, or
\* is about to get
MapsIn(e, a) == ~InNoInterval(process_mappers, e.pid, a)

ChainMaps(e) ==
  \A j \in 1..Len(e.callchain) :
    \/ IsContextMarker(e.callchain[j])
    \/ e.callchain[j] = e.ip
    \/ MapsIn(e, e.callchain[j])

BranchStackMaps(e) ==
  /\ ~Malformed(e.branch_stack)
  /\ \A k \in 1..Len(e.branch_stack) :
       \/ IsNullBranchStackEntry(e.branch_stack[k])
       \/ MapsIn(e, e.branch_stack[k].from_ip) /\ MapsIn(e, e.branch_stack[k].to_ip)

\* C15: the step that maps a sample adds one to num_sample_events_mapped
\* exactly when the ip was mapped and the call chain and the branch stack,
\* where the sample has them, were mapped without a failure; the data
\* address decides nothing but num_data_sample_events_mapped, which grows by
\* one exactly when the sample has a data address that was mapped.
C15_SampleCountedWhenIpChainAndBranchesMap ==
  [][(Stepping /\ CurrentEvent.type = PERF_RECORD_SAMPLE) =>
       /\ stats'.num_sample_events_mapped =
            stats.num_sample_events_mapped +
              (IF /\ MapsIn(CurrentEvent, CurrentEvent.ip)
                  /\ ChainMaps(CurrentEvent)
                  /\ BranchStackMaps(CurrentEvent)
               THEN 1 ELSE 0)
       /\ stats'.num_data_sample_events_mapped =
            stats.num_data_sample_events_mapped +
              (IF CurrentEvent.addr # U64Zero /\ MapsIn(CurrentEvent, CurrentEvent.addr)
               THEN 1 ELSE 0)
    ]_vars

\* the loop has just counted as mapped a sample with a call chain and a
\* branch stack whose data address is in no mapping
C15_Witness ==
  /\ pc = "loop" /\ i = 3
  /\ LastEvent.type = PERF_RECORD_SAMPLE
  /\ Len(LastEvent.callchain) > 0 /\ Len(LastEvent.branch_stack) > 0
  /\ LastEvent.addr # U64Zero
  /\ InNoInterval(process_mappers, LastEvent.pid, input[LastEvent.rid].addr)
  /\ stats.num_sample_events = 1 /\ stats.num_sample_events_mapped = 1
  /\ stats.num_data_sample_events = 1 /\ stats.num_data_sample_events_mapped = 0

(***************************************************************************)
(* A process that is named, forks a child and is named again, and samples  *)
(* of the child                                                            *)
(***************************************************************************)
MaxCommEvents == 4

ParentPid == 10

ChildPid == 11

CommParentA == CommEvent(ParentPid, ParentPid, "a")

CommParentB == CommEvent(ParentPid, ParentPid, "b")

ForkParentToChild == ForkEvent(ParentPid, ParentPid, ChildPid, ChildPid)

SampleOfChild ==
  SampleEvent(ChildPid, ChildPid, U64(0, 0, 0, \h1100), U64Zero, << >>, << >>)

CommRecords == {CommParentA, CommParentB, ForkParentToChild, SampleOfChild}

InitComm ==
  InitWith(SeqsUpTo(CommRecords, MaxCommEvents),
           {PerfParserOptions(FALSE, d, FALSE, 0) : d \in BOOLEAN},
           {PlainReader}, {<< >>})

SpecComm == InitComm /\ [][Next]_vars

\* the command of pidtid in map m, NoCommand standing for no entry
CommandOf(m, pidtid) == IF pidtid \in DOMAIN m THEN m[pidtid] ELSE NoCommand

\* C16: a FORK gives the child (pid, tid) the command of the parent (ppid,
\* ptid) when the parent has one and changes no entry when it has none; a
\* SAMPLE resolves to the command its (pid, tid) has at that moment; a COMM
\* changes the command of its own (pid, tid) and of no other.  So a child
\* keeps the command it inherited through a later COMM of its parent.
C16_ChildInheritsAndKeepsCommand ==
  [][Stepping =>
       /\ CurrentEvent.type = PERF_RECORD_FORK =>
            \E parent \in {<<CurrentEvent.ppid, CurrentEvent.ptid>>} :
            \E child \in {<<CurrentEvent.pid, CurrentEvent.tid>>} :
              /\ parent \in DOMAIN pidtid_to_comm_map =>
                   CommandOf(pidtid_to_comm_map', child) = pidtid_to_comm_map[parent]
              /\ parent \notin DOMAIN pidtid_to_comm_map =>
                   pidtid_to_comm_map' = pidtid_to_comm_map
              /\ \A p \in DOMAIN pidtid_to_comm_map' \ {child} :
                   CommandOf(pidtid_to_comm_map, p) = pidtid_to_comm_map'[p]
       /\ CurrentEvent.type = PERF_RECORD_SAMPLE =>
            /\ parsed_events'[i + 1].command =
                 CommandOf(pidtid_to_comm_map, <<CurrentEvent.pid, CurrentEvent.tid>>)
            /\ pidtid_to_comm_map' = pidtid_to_comm_map
       /\ CurrentEvent.type = PERF_RECORD_COMM =>
            /\ pidtid_to_comm_map'[<<CurrentEvent.pid, CurrentEvent.tid>>] = CurrentEvent.comm
            /\ \A p \in DOMAIN pidtid_to_comm_map' \ {<<CurrentEvent.pid, CurrentEvent.tid>>} :
                 CommandOf(pidtid_to_comm_map, p) = pidtid_to_comm_map'[p]
    ]_vars

\* COMM(10, 10, "a"), FORK 10 -> 11, COMM(10, 10, "b"), SAMPLE(11, 11): the
\* sample has just resolved to "a" while the parent is named "b"
C16_Witness ==
  /\ pc = "loop" /\ i = 4 /\ parses = 1
  /\ input = [k \in 1..4 |->
                [<<CommParentA, ForkParentToChild, CommParentB, SampleOfChild>>[k]
                   EXCEPT !.rid = k]]
  /\ parsed_events[4].command = "a"
  /\ pidtid_to_comm_map[<<ParentPid, ParentPid>>] = "b"
  /\ pidtid_to_comm_map[<<ChildPid, ChildPid>>] = "a"

(***************************************************************************)
(* Mappings of a parent, of its child and of the kernel, around a FORK     *)
(***************************************************************************)
MaxForkEvents == 3

\* MMAP(pid=10, start=0x2000, len=0x1000, pgoff=0, "/lib/y")
MmapOfParent ==
  MmapEvent(PERF_RECORD_MISC_USER, ParentPid, U64(0, 0, 0, \h2000), U64(0, 0, 0, \h1000),
            U64Zero, "/lib/y")

\* MMAP(pid=11, start=0x3000, len=0x1000, pgoff=0, "/lib/z")
MmapOfChild ==
  MmapEvent(PERF_RECORD_MISC_USER, ChildPid, U64(0, 0, 0, \h3000), U64(0, 0, 0, \h1000),
            U64Zero, "/lib/z")

\* a new thread of the parent
ForkThreadOfParent == ForkEvent(ParentPid, ParentPid, ParentPid, 12)

\* SAMPLE(pid=11, tid=11, ip=0x2040)
SampleOfChildInY ==
  SampleEvent(ChildPid, ChildPid, U64(0, 0, 0, \h2040), U64Zero, << >>, << >>)

ForkRecords ==
  {MmapOfParent, MmapOfChild, KernelMmapSmall, ForkParentToChild, ForkThreadOfParent,
   SampleOfChildInY}

InitFork ==
  InitWith(SeqsUpTo(ForkRecords, MaxForkEvents),
           {PerfParserOptions(r, FALSE, FALSE, 0) : r \in BOOLEAN},
           {PlainReader}, {<< >>})

SpecFork == InitFork /\ [][Next]_vars

\* the mapper a FORK from ppid hands to a new process
InheritedMapper(mappers, ppid) ==
  IF ppid \in DOMAIN mappers THEN mappers[ppid]
  ELSE IF kKernelPid \in DOMAIN mappers THEN mappers[kKernelPid]
  ELSE NewAddressMapper

\* C17 as claimed: after a FORK with ppid # pid the mapper of pid is a copy of
\* the mapper of ppid as it was, or else of the mapper of the kernel pid, or
\* else empty; a FORK with ppid = pid creates and changes no mapper.
C17_ForkGivesChildTheParentsMapper ==
  [][(Stepping /\ CurrentEvent.type = PERF_RECORD_FORK) =>
       IF CurrentEvent.ppid = CurrentEvent.pid
       THEN process_mappers' = process_mappers
       ELSE /\ CurrentEvent.pid \in DOMAIN process_mappers'
            /\ process_mappers'[CurrentEvent.pid] =
                 InheritedMapper(process_mappers, CurrentEvent.ppid)
    ]_vars

\* C17, amended: a FORK with ppid # pid gives pid, when pid has no mapper
\* yet, a copy of the mapper of ppid as it was, or else of the mapper of the
\* kernel pid, or else an empty mapper, and changes no other mapper; when pid
\* has a mapper already, or when ppid = pid, no mapper is created or changed.
C17_ForkGivesNewChildTheParentsMapper ==
  [][(Stepping /\ CurrentEvent.type = PERF_RECORD_FORK) =>
       IF CurrentEvent.ppid = CurrentEvent.pid \/ CurrentEvent.pid \in DOMAIN process_mappers
       THEN process_mappers' = process_mappers
       ELSE /\ DOMAIN process_mappers' = DOMAIN process_mappers \cup {CurrentEvent.pid}
            /\ process_mappers'[CurrentEvent.pid] =
                 InheritedMapper(process_mappers, CurrentEvent.ppid)
            /\ \A p \in DOMAIN process_mappers : process_mappers'[p] = process_mappers[p]
    ]_vars

\* MMAP of the parent, then the FORK: the child has just been given a mapper
\* holding the parent's one interval
C17_Witness ==
  /\ pc = "loop" /\ i = 2 /\ parses = 1
  /\ input[1].type = PERF_RECORD_MMAP /\ input[1].pid = ParentPid
  /\ LastEvent.type = PERF_RECORD_FORK /\ LastEvent.pid = ChildPid
  /\ ChildPid \in DOMAIN process_mappers
  /\ Len(process_mappers[ChildPid]) = 1
  /\ process_mappers[ChildPid] = process_mappers[ParentPid]

\* C18: the step of an MMAP or MMAP2 of pid P changes the mapper of P and no
\* other: every other pid keeps the mapper it had, and no mapper but that of
\* P comes into being.
C18_MmapChangesOneMapper ==
  [][(Stepping /\ HasMmapEvent(CurrentEvent)) =>
       /\ DOMAIN process_mappers' = DOMAIN process_mappers \cup {CurrentEvent.pid}
       /\ \A p \in DOMAIN process_mappers \ {CurrentEvent.pid} :
            process_mappers'[p] = process_mappers[p]
    ]_vars

\* a mapper of the parent, a child cloned from it, and then an MMAP of one of
\* the two: the other has kept the one interval it had
C18_Witness ==
  /\ pc = "loop" /\ i = 3 /\ parses = 1
  /\ input[1].type = PERF_RECORD_MMAP /\ input[1].pid = ParentPid
  /\ input[2] = [ForkParentToChild EXCEPT !.rid = 2]
  /\ LastEvent.type = PERF_RECORD_MMAP /\ LastEvent.pid = ChildPid
  /\ Len(process_mappers[ChildPid]) = 2
  /\ Len(process_mappers[ParentPid]) = 1

\* a process whose mapper was made from the kernel mapper, and then a second
\* kernel MMAP: the process has kept the interval it had
C18_WitnessKernel ==
  /\ pc = "loop" /\ i = 3 /\ parses = 1 /\ ~options.do_remap
  /\ IsKernelModeMmap(input[1])
  /\ input[2].type = PERF_RECORD_SAMPLE
  /\ IsKernelModeMmap(LastEvent)
  /\ process_mappers[ChildPid] # process_mappers[kKernelPid]
  /\ Len(process_mappers[ChildPid]) = 1

(***************************************************************************)
(* Mappings with and without samples and FINISHED_ROUND records, parsed    *)
(* with discard_unused_events                                              *)
(***************************************************************************)
MaxDiscardEvents == 4

DiscardRecords ==
  {UserMmapX, UserMmapY, SampleInX, OtherEvent(PERF_RECORD_FINISHED_ROUND)}

InitDiscard ==
  InitWith(SeqsUpTo(DiscardRecords, MaxDiscardEvents),
           {PerfParserOptions(r, TRUE, FALSE, 50) : r \in BOOLEAN},
           {PlainReader}, {<< >>})

SpecDiscard == InitDiscard /\ [][Next]_vars

\* the parsed events of MMAP and MMAP2 records in no region of which a sample
\* fell
UnusedMmaps ==
  {k \in 1..Len(parsed_events) :
     /\ HasMmapEvent(events[parsed_events[k].event_ptr])
     /\ parsed_events[k].num_samples_in_mmap_region = 0}

FinishedRounds == {k \in 1..Len(events) : events[k].type = PERF_RECORD_FINISHED_ROUND}

RECURSIVE ProcessEventsLoop(_, _, _)
ProcessEventsLoop(st, idx, fkm) ==
  LET After(r) ==
        IF r.status = "continue"
        THEN ProcessEventsLoop(r.st, idx + 1, r.first_kernel_mmap)
        ELSE [status |-> r.status, st |-> r.st]
  IN  IF idx >= Len(st.parsed_events) THEN [status |-> "finished", st |-> st]
      ELSE After(ProcessOneEvent(st, idx, fkm))

\* a parser just constructed, inside ParseRawEvents on records evs, at the
\* first iteration of the loop of ProcessEvents
FreshParserState(evs) ==
  LET Parsed(kept) == [k \in 1..Len(kept) |-> ParsedEvent(kept[k])]
  IN  [events |-> evs, parsed_events |-> Parsed(KeptPositions(evs)),
       process_mappers |-> << >>, name_to_dso |-> << >>,
       commands |-> {kSwapperCommandName},
       pidtid_to_comm_map |-> (<<kSwapperPid, kSwapperPid>> :> kSwapperCommandName),
       stats |-> ZeroStats]

\* ParseRawEvents of a parser just constructed on a reader rd holding
\* records evs: [aborted, st]
ParseRawEventsOfFreshParser(evs, rd) ==
  LET Kept(st, kept) ==
        [st EXCEPT !.events = [k \in 1..Len(kept) |-> st.events[kept[k].event_ptr]],
                   !.parsed_events = [k \in 1..Len(kept) |-> [kept[k] EXCEPT !.event_ptr = k]]]
      Pruned(st) ==
        IF ~options.discard_unused_events THEN st
        ELSE Kept(st, DropUnusedMmaps(st.parsed_events, st.events))
      Checked(st, fill) ==
        [st EXCEPT !.name_to_dso = fill.name_to_dso,
                   !.stats.did_remap =
                      /\ fill.ok
                      /\ st.stats.num_sample_events # 0
                      /\ ~BelowThreshold(st.stats.num_sample_events_mapped,
                                         st.stats.num_sample_events,
                                         options.sample_mapping_percentage_threshold)
                      /\ options.do_remap]
      AfterLoop(r) ==
        IF r.status = "abort" THEN [aborted |-> TRUE, st |-> r.st]
        ELSE IF r.status = "return_false" THEN [aborted |-> FALSE, st |-> Pruned(r.st)]
        ELSE [aborted |-> FALSE,
              st |-> Pruned(Checked(r.st, FillInDsoBuildIds(r.st.name_to_dso, rd)))]
  IN  AfterLoop(ProcessEventsLoop(FreshParserState(evs), 0, TRUE))

\* C20: when a second ParseRawEvents on one parser has returned, the mappers,
\* the DSO table, the command table, the statistics and the parsed events are
\* those that a parser just constructed has after ParseRawEvents on the
\* records the second call started from.
C20_SecondParseEqualsFreshParse ==
  (pc = "done" /\ parses = 2) =>
    \E f \in {ParseRawEventsOfFreshParser(input, reader)} :
      /\ ~f.aborted
      /\ process_mappers = f.st.process_mappers
      /\ name_to_dso = f.st.name_to_dso
      /\ commands = f.st.commands
      /\ pidtid_to_comm_map = f.st.pidtid_to_comm_map
      /\ stats = f.st.stats
      /\ parsed_events = f.st.parsed_events

\* the same of a first ParseRawEvents: the reference computation agrees with
\* the actions
FirstParseEqualsFreshParse ==
  (pc = "done" /\ parses = 1) =>
    \E f \in {ParseRawEventsOfFreshParser(input, reader)} :
      /\ ~f.aborted
      /\ process_mappers = f.st.process_mappers
      /\ name_to_dso = f.st.name_to_dso
      /\ commands = f.st.commands
      /\ pidtid_to_comm_map = f.st.pidtid_to_comm_map
      /\ stats = f.st.stats
      /\ parsed_events = f.st.parsed_events
      /\ events = f.st.events

\* the addresses of sample e that are looked up: its ip, its data address,
\* the entries of its call chain and both ends of its branches
AddressesOf(e) ==
  {e.ip} \cup ({e.addr} \ {U64Zero})
    \cup {e.callchain[j] : j \in 1..Len(e.callchain)}
    \cup {e.branch_stack[k].from_ip : k \in 1..Len(e.branch_stack)}
    \cup {e.branch_stack[k].to_ip : k \in 1..Len(e.branch_stack)}

\* the filename of the MMAP that made interval iv
FilenameOf(iv) == events[parsed_events[iv.id + 1].event_ptr].filename

\* address a of sample e lies in an interval of the DSO called name
FallsIn(e, a, name) ==
  \E k \in 1..Len(MapperOf(process_mappers, e.pid)) :
    /\ InInterval(MapperOf(process_mappers, e.pid)[k], a)
    /\ FilenameOf(MapperOf(process_mappers, e.pid)[k]) = name

\* the DSO called name gets in this step a thread it did not have, or its
\* hit flag
NewlyHit(name, pidtid) ==
  /\ name \in DOMAIN name_to_dso'
  /\ \/ /\ pidtid \in name_to_dso'[name].threads
        /\ name \in DOMAIN name_to_dso => pidtid \notin name_to_dso[name].threads
     \/ /\ name_to_dso'[name].hit
        /\ name \in DOMAIN name_to_dso => ~name_to_dso[name].hit

ThreadsSeen ==
  UNION {name_to_dso'[n].threads : n \in DOMAIN name_to_dso'}
    \cup {<<events[k].pid, events[k].tid>> : k \in 1..Len(events)}

\* C21 as claimed: a DSO gets a thread or its hit flag only from a SAMPLE of
\* that (pid, tid) of which some address was mapped into the DSO by a lookup
\* that succeeded; a lookup rejected by the page-offset check adds no thread
\* and sets no hit.
C21_OnlySuccessfulLookupsMarkDso ==
  [][\A name \in DOMAIN name_to_dso' : \A pidtid \in ThreadsSeen :
       NewlyHit(name, pidtid) =>
         /\ Stepping /\ CurrentEvent.type = PERF_RECORD_SAMPLE
         /\ \E a \in AddressesOf(CurrentEvent) :
              /\ FallsIn(CurrentEvent, a, name)
              /\ MapIPAndPidAndGetNameAndOffset(
                   ParserState, a, <<CurrentEvent.pid, CurrentEvent.tid>>).ok
    ]_vars

\* C21, amended: a DSO gets a thread (pid, tid), or its hit flag, only in the
\* step of a SAMPLE of that (pid, tid) of which some address (ip, data
\* address, call-chain entry or branch address) lies in an interval made by
\* an MMAP of that DSO; whether the lookup then passes the page-offset check
\* plays no part.
C21_OnlySamplesInsideMarkDso ==
  [][\A name \in DOMAIN name_to_dso' : \A pidtid \in ThreadsSeen :
       NewlyHit(name, pidtid) =>
         /\ Stepping /\ CurrentEvent.type = PERF_RECORD_SAMPLE
         /\ name_to_dso'[name].hit
         /\ name_to_dso'[name].threads \ {<<CurrentEvent.pid, CurrentEvent.tid>>} =
              IF name \in DOMAIN name_to_dso
              THEN name_to_dso[name].threads \ {<<CurrentEvent.pid, CurrentEvent.tid>>}
              ELSE {}
         /\ \E a \in AddressesOf(CurrentEvent) : FallsIn(CurrentEvent, a, name)
    ]_vars

\* with do_remap, a sample whose data address lies in /lib/high was refused
\* the remapped address (the address is as it came) and /lib/high is hit by
\* its thread all the same
C21_Witness ==
  /\ pc = "loop" /\ i >= 1 /\ parses = 1 /\ options.do_remap
  /\ LastEvent.type = PERF_RECORD_SAMPLE
  /\ LastEvent.addr = U64(0, 0, 0, \h9200)
  /\ \E k \in 1..Len(process_mappers[UserPid]) :
       /\ InInterval(process_mappers[UserPid][k], LastEvent.addr)
       /\ FilenameOf(process_mappers[UserPid][k]) = "/lib/high"
  /\ stats.num_data_sample_events_mapped = 0
  /\ name_to_dso["/lib/high"].hit
  /\ name_to_dso["/lib/high"].threads = {<<UserPid, UserPid>>}

(***************************************************************************)
(* Two DSOs, one of them sampled, a reader that knows a build-id and a     *)
(* probe that finds some                                                   *)
(***************************************************************************)
MaxBuildIdEvents == 3

BuildIdRecords == {UserMmapX, UserMmapY, SampleInX}

\* the reader has build-id "ab" for /bin/x and "0e" for /bin/y
ReaderBuildIds == ("/bin/x" :> <<10, 11>>) @@ ("/bin/y" :> <<0, 14>>)

\* what the probe can find: nothing; byte 0xcd for /bin/x; that and byte 0xef
\* for /bin/y
ProbeResults ==
  {<< >>, "/bin/x" :> <<205>>, ("/bin/x" :> <<205>>) @@ ("/bin/y" :> <<239>>)}

InitBuildId ==
  InitWith(SeqsUpTo(BuildIdRecords, MaxBuildIdEvents),
           {PerfParserOptions(FALSE, FALSE, m, 0) : m \in BOOLEAN},
           {PerfReader(FALSE, ids, ok) : ids \in {NoBuildIds, ReaderBuildIds},
                                         ok \in BOOLEAN},
           ProbeResults)

SpecBuildId == InitBuildId /\ [][Next]_vars

\* the DSOs the probe is asked for and finds a build-id for
ProbeFinds ==
  {name \in DOMAIN name_to_dso :
     /\ options.read_missing_buildids
     /\ name_to_dso[name].hit
     /\ name \in DOMAIN dso_probe
     /\ dso_probe[name] # << >>}

HexOf(bytes) ==
  [k \in 1..2 * Len(bytes) |->
     IF k % 2 = 1 THEN bytes[(k + 1) \div 2] \div 16 ELSE bytes[k \div 2] % 16]

\* C22: FillInDsoBuildIds gives a DSO the build-id the probe finds for it,
\* in hexadecimal, when read_missing_buildids is set, the DSO is hit and the
\* probe finds one; else the build-id the reader has for its name; else the
\* one it had.  The probe's finds, and nothing else, are injected into the
\* reader; without a find the reader is left alone.
C22_BuildIdFill ==
  [][(pc = "loop" /\ i = Len(parsed_events)) =>
       /\ DOMAIN name_to_dso' = DOMAIN name_to_dso
       /\ \A name \in DOMAIN name_to_dso :
            /\ name_to_dso'[name].build_id =
                 IF name \in ProbeFinds THEN HexOf(dso_probe[name])
                 ELSE IF name \in DOMAIN reader.filenames_to_build_ids
                 THEN reader.filenames_to_build_ids[name]
                 ELSE name_to_dso[name].build_id
            /\ name_to_dso'[name] =
                 [name_to_dso[name] EXCEPT !.build_id = name_to_dso'[name].build_id]
       /\ IF ProbeFinds = {} \/ ~reader.inject_ok
          THEN reader' = reader
          ELSE /\ DOMAIN reader'.filenames_to_build_ids =
                    DOMAIN reader.filenames_to_build_ids \cup ProbeFinds
               /\ \A name \in DOMAIN reader'.filenames_to_build_ids :
                    reader'.filenames_to_build_ids[name] =
                      IF name \in ProbeFinds THEN HexOf(dso_probe[name])
                      ELSE reader.filenames_to_build_ids[name]
       /\ (ProbeFinds # {} /\ ~reader.inject_ok) => ~process_events_result'
    ]_vars

\* /bin/x was sampled and /bin/y was not, the reader had "ab" and "0e" and the
\* probe finds 0xcd and 0xef: /bin/x has "cd", which the reader now holds
\* too, and /bin/y has the reader's "0e"
C22_Witness ==
  /\ pc = "returned" /\ parses = 1 /\ options.read_missing_buildids
  /\ DOMAIN dso_probe = {"/bin/x", "/bin/y"}
  /\ DOMAIN name_to_dso = {"/bin/x", "/bin/y"}
  /\ name_to_dso["/bin/x"].hit /\ ~name_to_dso["/bin/y"].hit
  /\ name_to_dso["/bin/x"].build_id = <<12, 13>>
  /\ name_to_dso["/bin/y"].build_id = <<0, 14>>
  /\ reader.filenames_to_build_ids = ("/bin/x" :> <<12, 13>>) @@ ("/bin/y" :> <<0, 14>>)

(***************************************************************************)
(* COMM and FORK records and samples of the parent, the child and the      *)
(* swapper                                                                 *)
(***************************************************************************)
MaxCommandEvents == 4

SampleOfSwapper ==
  SampleEvent(kSwapperPid, kSwapperPid, U64(0, 0, 0, \h1100), U64Zero, << >>, << >>)

CommOfSwapper == CommEvent(kSwapperPid, kSwapperPid, "idle")

CommandRecords ==
  {CommParentA, CommParentB, ForkParentToChild, SampleOfChild, SampleOfSwapper,
   CommOfSwapper}

InitCommand ==
  InitWith(SeqsUpTo(CommandRecords, MaxCommandEvents),
           {PerfParserOptions(FALSE, FALSE, FALSE, 0)},
           {PlainReader}, {<< >>})

SpecCommand == InitCommand /\ [][Next]_vars

\* the command that the first n of records recs give to pidtid: that of the
\* last COMM of pidtid or of the last FORK to pidtid from a parent that had a
\* command, "swapper" for (0, 0) if there is none, else no command
RECURSIVE LastCommand(_, _, _)
LastCommand(recs, n, pidtid) ==
  IF n = 0
  THEN IF pidtid = <<kSwapperPid, kSwapperPid>> THEN kSwapperCommandName ELSE NoCommand
  ELSE IF recs[n].type = PERF_RECORD_COMM /\ <<recs[n].pid, recs[n].tid>> = pidtid
  THEN recs[n].comm
  ELSE IF /\ recs[n].type = PERF_RECORD_FORK
          /\ <<recs[n].pid, recs[n].tid>> = pidtid
          /\ <<recs[n].ppid, recs[n].ptid>> # pidtid
          /\ LastCommand(recs, n - 1, <<recs[n].ppid, recs[n].ptid>>) # NoCommand
  THEN LastCommand(recs, n - 1, <<recs[n].ppid, recs[n].ptid>>)
  ELSE LastCommand(recs, n - 1, pidtid)

\* C23: in the first parse of a parser, the command of every SAMPLE that has
\* been processed is the one that the records before it give to its (pid,
\* tid): the last COMM of that (pid, tid) or inheriting FORK to it,
\* "swapper" for (0, 0) without any, and none for a (pid, tid) without entry.
C23_SampleGetsLatestCommand ==
  (parses = 1 /\ pc \in {"loop", "returned"}) =>
    \A k \in 1..i :
      \E e \in {events[parsed_events[k].event_ptr]} :
        e.type = PERF_RECORD_SAMPLE =>
          parsed_events[k].command = LastCommand(input, e.rid - 1, <<e.pid, e.tid>>)

\* a swapper sample named "swapper", a child sample named "a" by
\* inheritance, and a child sample without command have all been seen
C23_Witness ==
  /\ parses = 1 /\ pc = "loop" /\ i = 4
  /\ input[1].type = PERF_RECORD_SAMPLE /\ parsed_events[1].command = NoCommand
  /\ input[2].type = PERF_RECORD_COMM
  /\ input[3].type = PERF_RECORD_FORK
  /\ input[4].type = PERF_RECORD_SAMPLE /\ parsed_events[4].command = "a"

\* a sample of the swapper with no COMM before it is named "swapper"
C23_WitnessSwapper ==
  /\ parses = 1 /\ pc = "loop" /\ i = 1
  /\ input[1] = [SampleOfSwapper EXCEPT !.rid = 1]
  /\ parsed_events[1].command = kSwapperCommandName

(***************************************************************************)
(* Mappings, a FORK, a sample and FINISHED_ROUND records in between        *)
(***************************************************************************)
MaxIdEvents == 3

IdRecords ==
  {MmapOfParent, MmapOfChild, KernelMmapSmall, ForkParentToChild, SampleOfChildInY,
   OtherEvent(PERF_RECORD_FINISHED_ROUND)}

InitId ==
  InitWith(SeqsUpTo(IdRecords, MaxIdEvents), PlainOptions, {PlainReader}, {<< >>})

SpecId == InitId /\ [][Next]_vars

\* C24: while the loop of ProcessEvents runs, the id of every interval of
\* every mapper is an index into parsed_events below its size, is at most the
\* index of the record the loop is at, and is the index of an MMAP or MMAP2
\* whose filename the DSO table holds.
C24_IntervalIdsDesignateMmaps ==
  pc = "loop" =>
    \A pid \in DOMAIN process_mappers :
      \A k \in 1..Len(process_mappers[pid]) :
        \E id \in {process_mappers[pid][k].id} :
          /\ id >= 0 /\ id < Len(parsed_events)
          /\ id <= i
          /\ HasMmapEvent(events[parsed_events[id + 1].event_ptr])
          /\ events[parsed_events[id + 1].event_ptr].filename \in DOMAIN name_to_dso

\* after a FINISHED_ROUND that was filtered out, an MMAP of the parent and a
\* FORK, the child holds an interval whose id is that of the MMAP among the
\* parsed events, not among the records
C24_Witness ==
  /\ pc = "loop" /\ i = 2 /\ Len(parsed_events) = 2 /\ Len(events) = 3
  /\ events[1].type = PERF_RECORD_FINISHED_ROUND
  /\ LastEvent.type = PERF_RECORD_FORK
  /\ ChildPid \in DOMAIN process_mappers
  /\ Len(process_mappers[ChildPid]) = 1
  /\ process_mappers[ChildPid][1].id = 0
  /\ parsed_events[1].event_ptr = 2

(***************************************************************************)
(* Samples with branch stacks: one with trailing null entries, one with an *)
(* address in no mapping in the middle                                     *)
(***************************************************************************)
MaxBranchEvents == 3

\* eight entries: five branches inside and between /bin/x and /bin/y, then
\* three null entries
SampleBranch8 ==
  SampleEvent(UserPid, UserPid, U64(0, 0, 0, \h1100), U64Zero, << >>,
              <<BranchStackEntry(U64(0, 0, 0, \h1100), U64(0, 0, 0, \h1180)),
                BranchStackEntry(U64(0, 0, 0, \h1180), U64(0, 0, 0, \h2040)),
                BranchStackEntry(U64(0, 0, 0, \h2040), U64(0, 0, 0, \h2080)),
                BranchStackEntry(U64(0, 0, 0, \h2080), U64(0, 0, 0, \h1200)),
                BranchStackEntry(U64(0, 0, 0, \h1200), U64(0, 0, 0, \h1100)),
                BranchStackEntry(U64Zero, U64Zero),
                BranchStackEntry(U64Zero, U64Zero),
                BranchStackEntry(U64Zero, U64Zero)>>)

\* three entries: /bin/y -> /bin/x, /bin/x -> 0x9100 (in no mapping),
\* /bin/x -> /bin/y
SampleBranchPartial ==
  SampleEvent(UserPid, UserPid, U64(0, 0, 0, \h1100), U64Zero, << >>,
              <<BranchStackEntry(U64(0, 0, 0, \h2040), U64(0, 0, 0, \h1180)),
                BranchStackEntry(U64(0, 0, 0, \h1180), U64(0, 0, 0, \h9100)),
                BranchStackEntry(U64(0, 0, 0, \h1100), U64(0, 0, 0, \h2080))>>)

BranchRecords == {UserMmapX, UserMmapY, SampleBranch8, SampleBranchPartial}

InitBranch ==
  InitWith(SeqsUpTo(BranchRecords, MaxBranchEvents),
           {PerfParserOptions(r, FALSE, FALSE, 50) : r \in BOOLEAN},
           {PlainReader}, {<< >>})

SpecBranch == InitBranch /\ [][Next]_vars

\* the number of leading entries that are not null
LeadingEntries(branch_stack) ==
  Cardinality({k \in 1..Len(branch_stack) :
                 \A j \in 1..k : ~IsNullBranchStackEntry(branch_stack[j])})

\* the address that a of sample e is rewritten to when it is mapped
RewrittenTo(e, a) ==
  IF options.do_remap THEN Remapped(MapperOf(process_mappers, e.pid), a) ELSE a

\* C25: for a SAMPLE whose branch stack has no non-null entry after a null
\* one, parsed_event.branch_stack has as many entries as the branch stack has
\* leading non-null entries; if both addresses of each of those lie in a
\* mapping, each parsed entry names the DSOs of its two addresses and both are
\* rewritten in the record; if one does not, the sample is not counted as
\* mapped.  The null entries at the end stay as they are.
C25_BranchStackTrimmedAndMapped ==
  [][(/\ Stepping /\ CurrentEvent.type = PERF_RECORD_SAMPLE
      /\ Len(CurrentEvent.branch_stack) > 0
      /\ ~Malformed(CurrentEvent.branch_stack)) =>
       \E n \in {LeadingEntries(CurrentEvent.branch_stack)} :
         /\ Len(parsed_events'[i + 1].branch_stack) = n
         /\ Len(events'[CurrentPtr].branch_stack) = Len(CurrentEvent.branch_stack)
         /\ \A k \in (n + 1)..Len(CurrentEvent.branch_stack) :
              events'[CurrentPtr].branch_stack[k] = CurrentEvent.branch_stack[k]
         /\ IF \A k \in 1..n :
                 /\ MapsIn(CurrentEvent, CurrentEvent.branch_stack[k].from_ip)
                 /\ MapsIn(CurrentEvent, CurrentEvent.branch_stack[k].to_ip)
            THEN /\ \A k \in 1..n :
                      /\ FallsIn(CurrentEvent, CurrentEvent.branch_stack[k].from_ip,
                                 parsed_events'[i + 1].branch_stack[k].from.dso_info)
                      /\ FallsIn(CurrentEvent, CurrentEvent.branch_stack[k].to_ip,
                                 parsed_events'[i + 1].branch_stack[k].to.dso_info)
                      /\ events'[CurrentPtr].branch_stack[k].from_ip =
                           RewrittenTo(CurrentEvent, CurrentEvent.branch_stack[k].from_ip)
                      /\ events'[CurrentPtr].branch_stack[k].to_ip =
                           RewrittenTo(CurrentEvent, CurrentEvent.branch_stack[k].to_ip)
                 /\ (MapsIn(CurrentEvent, CurrentEvent.ip) /\ ChainMaps(CurrentEvent)) =>
                      stats'.num_sample_events_mapped = stats.num_sample_events_mapped + 1
            ELSE stats'.num_sample_events_mapped = stats.num_sample_events_mapped
    ]_vars

\* the loop has just mapped, with do_remap, the sample with eight entries and
\* both mappings in place: five parsed entries, eight entries in the record,
\* the sample counted
C25_Witness ==
  /\ pc = "loop" /\ i = 3 /\ parses = 1 /\ options.do_remap
  /\ input[3] = [SampleBranch8 EXCEPT !.rid = 3]
  /\ Len(parsed_events[3].branch_stack) = 5
  /\ Len(LastEvent.branch_stack) = 8
  /\ \A k \in 1..5 : parsed_events[3].branch_stack[k].from.dso_info \in {"/bin/x", "/bin/y"}
  /\ LastEvent.branch_stack[2] # SampleBranch8.branch_stack[2]
  /\ stats.num_sample_events_mapped = 1

\* the branch addresses in the order of their lookups: from_ip of entry 1,
\* to_ip of entry 1, from_ip of entry 2, ...
BranchAddress(branch_stack, p) ==
  IF p % 2 = 1 THEN branch_stack[(p + 1) \div 2].from_ip
  ELSE branch_stack[p \div 2].to_ip

\* the positions, in that order, of the addresses of the trimmed entries of
\* sample e that lie in no mapping
UnmappedPositions(e) ==
  {p \in 1..(2 * LeadingEntries(e.branch_stack)) :
     ~MapsIn(e, BranchAddress(e.branch_stack, p))}

FirstUnmapped(e) ==
  CHOOSE p \in UnmappedPositions(e) : \A q \in UnmappedPositions(e) : p <= q

\* how many of the first f - 1 branch addresses of sample e lie in the
\* mapping made by the MMAP with parsed-event id
LookupsInMmap(e, f, id) ==
  Cardinality({p \in 1..(f - 1) :
                 \E k \in 1..Len(MapperOf(process_mappers, e.pid)) :
                   /\ MapperOf(process_mappers, e.pid)[k].id = id
                   /\ InInterval(MapperOf(process_mappers, e.pid)[k],
                                 BranchAddress(e.branch_stack, p))})

\* C28: when some address of the trimmed entries of a SAMPLE's branch stack
\* lies in no mapping, the addresses looked up before the first such one stay
\* rewritten in the record, their DSOs stay hit with the sample's thread, the
\* MMAPs they fell in keep the samples counted for them, and the failing
\* address and all after it keep their original values.
C28_NoRollbackOfBranchStack ==
  [][(/\ Stepping /\ CurrentEvent.type = PERF_RECORD_SAMPLE
      /\ Len(CurrentEvent.branch_stack) > 0
      /\ ~Malformed(CurrentEvent.branch_stack)
      /\ UnmappedPositions(CurrentEvent) # {}) =>
       \E f \in {FirstUnmapped(CurrentEvent)} :
         /\ \A p \in 1..(f - 1) :
              /\ BranchAddress(events'[CurrentPtr].branch_stack, p) =
                   RewrittenTo(CurrentEvent, BranchAddress(CurrentEvent.branch_stack, p))
              /\ \E name \in DOMAIN name_to_dso' :
                   /\ FallsIn(CurrentEvent, BranchAddress(CurrentEvent.branch_stack, p), name)
                   /\ name_to_dso'[name].hit
                   /\ <<CurrentEvent.pid, CurrentEvent.tid>> \in name_to_dso'[name].threads
         /\ \A p \in f..(2 * Len(CurrentEvent.branch_stack)) :
              BranchAddress(events'[CurrentPtr].branch_stack, p) =
                BranchAddress(CurrentEvent.branch_stack, p)
         /\ \A k \in 1..Len(parsed_events) :
              parsed_events'[k].num_samples_in_mmap_region >=
                parsed_events[k].num_samples_in_mmap_region
                  + LookupsInMmap(CurrentEvent, f, k - 1)
    ]_vars

\* the loop has just mapped, with do_remap, the sample whose second entry
\* jumps to 0x9100: the first entry and the from_ip of the second are
\* rewritten, the to_ip of the second and the third entry are as they were,
\* /bin/x and /bin/y are hit, /bin/x has the sample's ip and two branch
\* addresses counted and /bin/y one, and the sample is not counted as mapped
C28_Witness ==
  /\ pc = "loop" /\ i = 3 /\ parses = 1 /\ options.do_remap
  /\ input[1] = [UserMmapX EXCEPT !.rid = 1]
  /\ input[2] = [UserMmapY EXCEPT !.rid = 2]
  /\ input[3] = [SampleBranchPartial EXCEPT !.rid = 3]
  /\ LastEvent.branch_stack[1] # SampleBranchPartial.branch_stack[1]
  /\ LastEvent.branch_stack[2].from_ip # SampleBranchPartial.branch_stack[2].from_ip
  /\ LastEvent.branch_stack[2].to_ip = SampleBranchPartial.branch_stack[2].to_ip
  /\ LastEvent.branch_stack[3] = SampleBranchPartial.branch_stack[3]
  /\ name_to_dso["/bin/x"].hit /\ name_to_dso["/bin/y"].hit
  /\ parsed_events[1].num_samples_in_mmap_region = 3
  /\ parsed_events[2].num_samples_in_mmap_region = 1
  /\ stats.num_sample_events_mapped = 0

(***************************************************************************)
(* MMAP and MMAP2 records that carry the same filename with different      *)
(* device and inode numbers                                                *)
(***************************************************************************)
MaxDsoEvents == 4

\* /bin/x on device 8:1, inode 77, at 0x1000
Mmap2XA ==
  Mmap2Event(PERF_RECORD_MISC_USER, UserPid, U64(0, 0, 0, \h1000), U64(0, 0, 0, \h1000),
             U64Zero, "/bin/x", 8, 1, 77)

\* /bin/x on device 9:2, inode 78, at 0x3000
Mmap2XB ==
  Mmap2Event(PERF_RECORD_MISC_USER, UserPid, U64(0, 0, 0, \h3000), U64(0, 0, 0, \h1000),
             U64Zero, "/bin/x", 9, 2, 78)

DsoRecords == {UserMmapX, Mmap2XA, Mmap2XB, SampleInX}

InitDso ==
  InitWith(SeqsUpTo(DsoRecords, MaxDsoEvents),
           {PerfParserOptions(r, FALSE, FALSE, 0) : r \in BOOLEAN},
           {PlainReader}, {<< >>})

SpecDso == InitDso /\ [][Next]_vars

IsMmapRecord(e) == e.type \in {PERF_RECORD_MMAP, PERF_RECORD_MMAP2}

\* (maj, min, ino) that record e carries: those of an MMAP2, zero for an MMAP
DeviceAndInodeOf(e) ==
  IF e.type = PERF_RECORD_MMAP2 THEN <<e.maj, e.min, e.ino>> ELSE <<0, 0, 0>>

DeviceAndInode(dso) == <<dso.maj, dso.min, dso.ino>>

\* each entry of dsos has the device and inode of the first of the n records
\* behind pes that is an MMAP or MMAP2 of its filename
EntriesOfFirstRecords(evs, pes, n, dsos) ==
  \A name \in DOMAIN dsos :
    \E k \in 1..n :
      /\ IsMmapRecord(evs[pes[k].event_ptr])
      /\ evs[pes[k].event_ptr].filename = name
      /\ \A j \in 1..(k - 1) :
           ~(IsMmapRecord(evs[pes[j].event_ptr]) /\ evs[pes[j].event_ptr].filename = name)
      /\ DeviceAndInode(dsos[name]) = DeviceAndInodeOf(evs[pes[k].event_ptr])

\* C26: no step removes an entry of the DSO table or changes its device or
\* inode; an MMAP or MMAP2 whose filename has an entry leaves the whole table
\* as it is (hit flags and threads too); one whose filename has none adds an
\* entry with its own device and inode (zero for an MMAP), not hit, without
\* threads; and during the first parse each entry has the device and inode
\* of the first MMAP or MMAP2 processed that carries its filename.
C26_DsoEntryIsOfFirstMmap ==
  [][/\ \A name \in DOMAIN name_to_dso :
          /\ name \in DOMAIN name_to_dso'
          /\ DeviceAndInode(name_to_dso'[name]) = DeviceAndInode(name_to_dso[name])
     /\ (Stepping /\ IsMmapRecord(CurrentEvent) /\ pc' = "loop") =>
          IF CurrentEvent.filename \in DOMAIN name_to_dso
          THEN name_to_dso' = name_to_dso
          ELSE name_to_dso' =
                 (CurrentEvent.filename :>
                    [maj |-> DeviceAndInodeOf(CurrentEvent)[1],
                     min |-> DeviceAndInodeOf(CurrentEvent)[2],
                     ino |-> DeviceAndInodeOf(CurrentEvent)[3],
                     build_id |-> << >>, hit |-> FALSE, threads |-> {}])
                 @@ name_to_dso
     /\ (parses' = 1 /\ pc' = "loop") =>
          EntriesOfFirstRecords(events', parsed_events', i', name_to_dso')
    ]_vars

\* an MMAP of /bin/x, a sample in it and then an MMAP2 of /bin/x on device
\* 9:2 have been processed: the entry has device and inode zero, is hit and
\* has the sample's thread
C26_Witness ==
  /\ pc = "loop" /\ i = 3 /\ parses = 1
  /\ input[1] = [UserMmapX EXCEPT !.rid = 1]
  /\ input[2] = [SampleInX EXCEPT !.rid = 2]
  /\ input[3] = [Mmap2XB EXCEPT !.rid = 3]
  /\ DeviceAndInode(name_to_dso["/bin/x"]) = <<0, 0, 0>>
  /\ name_to_dso["/bin/x"].hit
  /\ name_to_dso["/bin/x"].threads = {<<UserPid, UserPid>>}

(***************************************************************************)
(* Records of every kind that is counted, and of kinds that are not        *)
(***************************************************************************)
MaxStatsEvents == 3

\* a sample inside /bin/x whose data address is in no mapping
SampleDataNowhere ==
  SampleEvent(UserPid, UserPid, U64(0, 0, 0, \h1100), U64(0, 0, 0, \h9100), << >>, << >>)

ExitOfChild == ExitEvent(ParentPid, ParentPid, ChildPid, ChildPid)

StatsRecords ==
  {UserMmapX, SampleInX, SampleIpNowhere, SampleDataNowhere, CommParentA,
   ForkParentToChild, ExitOfChild, OtherEvent(PERF_RECORD_LOST)}

InitStats ==
  InitWith(SeqsUpTo(StatsRecords, MaxStatsEvents),
           {PerfParserOptions(r, FALSE, FALSE, 0) : r \in BOOLEAN},
           {PlainReader, SkippingReader}, {<< >>})

SpecStats == InitStats /\ [][Next]_vars

CounterNames ==
  {"num_mmap_events", "num_comm_events", "num_fork_events", "num_exit_events",
   "num_sample_events", "num_sample_events_mapped", "num_data_sample_events",
   "num_data_sample_events_mapped"}

\* the records counted by kind
CountedRecords(s) ==
  s.num_mmap_events + s.num_comm_events + s.num_fork_events + s.num_exit_events
    + s.num_sample_events

\* C27: in every state the parser is left in by a step that does not abort
\* the process, num_sample_events_mapped <= num_sample_events,
\* num_data_sample_events_mapped <= num_data_sample_events <=
\* num_sample_events, and the five counters of record kinds add up to at most
\* the number of records processed; no step within a parse decreases a
\* counter.
C27_StatisticsAreOrderedAndGrow ==
  [][/\ pc' # "aborted" =>
          /\ stats'.num_sample_events_mapped <= stats'.num_sample_events
          /\ stats'.num_data_sample_events_mapped <= stats'.num_data_sample_events
          /\ stats'.num_data_sample_events <= stats'.num_sample_events
          /\ CountedRecords(stats') <= i'
     /\ parses' = parses =>
          \A c \in CounterNames : stats'[c] >= stats[c]
    ]_vars

\* an MMAP, a sample whose ip is in no mapping and whose data address is
\* mapped, and a LOST have been processed: one sample, not mapped,
\* one data sample, mapped, and two records counted of three
C27_Witness ==
  /\ pc = "loop" /\ i = 3 /\ parses = 1
  /\ stats.num_mmap_events = 1
  /\ stats.num_sample_events = 1 /\ stats.num_sample_events_mapped = 0
  /\ stats.num_data_sample_events = 1 /\ stats.num_data_sample_events_mapped = 1
  /\ CountedRecords(stats) = 2

====
